---- MODULE Spec2Model ----
(***************************************************************************)
(* A model of konfigure (src/python/konfigure/core.py): the Config tree,   *)
(* its value conversion, null-safe navigation, serialization, and the      *)
(* load / dump facade.                                                     *)
(*                                                                         *)
(* Python values are tagged records.  A string is the sequence of its      *)
(* characters; a mapping is the sequence of its (key, value) entries in    *)
(* iteration order; a key is itself a value (a str or an int).             *)
(***************************************************************************)
EXTENDS Integers, Sequences, FiniteSets, TLC

VARIABLES
    cfg,        \* the root Config object
    yaml_path,  \* the root's _yaml_path attribute (bound location) or None
    fs,         \* the file system: absolute path -> file state
    last,       \* the operation performed last, its arguments and outcome
    order,      \* history: root keys in order of insertion since last deletion
    steps,      \* number of operations performed so far
    thr,        \* the threads sharing cfg: program, position, local variables
    lock,       \* the holder of the callers' external lock, or None
    heap,       \* Config objects by identity, with their _parent links
    bindings,   \* the caller's binding map handed to render
    passes      \* the results of the expansion passes of the last render

vars == <<cfg, yaml_path, fs, last, order, steps, thr, lock, heap, bindings,
         passes>>

\* the state of the concurrent, the identity and the rendering programs
ext == <<thr, lock, heap, bindings, passes>>

(***************************************************************************)
(* Bounds of the model.                                                    *)
(***************************************************************************)
MaxSteps == 2      \* operations per behaviour
MaxListLen == 3    \* a SafeList grows to at most this many elements
MaxConvLen == 2    \* entries of the mapping given to the constructor

(***************************************************************************)
(* Python values.                                                          *)
(***************************************************************************)
None == [t |-> "None"]
IntV(n) == [t |-> "int", n |-> n]
BoolV(b) == [t |-> "bool", b |-> b]
StrV(s) == [t |-> "str", s |-> s]
DictV(items) == [t |-> "dict", items |-> items]
ListV(elems) == [t |-> "list", elems |-> elems]
Item(k, v) == [k |-> k, v |-> v]

\* instances of the classes of core.py
MkConfig(items) == [t |-> "Config", items |-> items]
MkSafeList(elems) == [t |-> "SafeList", elems |-> elems]
SafeAttributeAccess(wrapped_object) ==
    [t |-> "SafeAttributeAccess", wrapped_object |-> wrapped_object]

\* isinstance(v, dict), isinstance(v, list), ...: subclasses are instances
IsDict(v) == v.t \in {"dict", "Config"}
IsConfig(v) == v.t = "Config"
IsList(v) == v.t \in {"list", "SafeList"}
IsSafeList(v) == v.t = "SafeList"
IsStr(v) == v.t \in {"str", "StringTemplate"}
IsStringTemplate(v) == v.t = "StringTemplate"
IsNumber(v) == v.t \in {"int", "bool"}     \* isinstance(v, (int, float[, bool]))
IsSafeAttributeAccess(v) == v.t = "SafeAttributeAccess"

\* the characters of a str or StringTemplate
CharsOf(v) == IF v.t = "str" THEN v.s ELSE v.raw_string

\* the entries of a dict or Config, the elements of a list or SafeList
ItemsOf(v) == v.items
ElemsOf(v) == v.elems

\* bool(v) on plain values: the `x or {}` idiom
Truthy(v) ==
    CASE v.t = "None" -> FALSE
      [] v.t = "int" -> v.n # 0
      [] v.t = "bool" -> v.b
      [] IsStr(v) -> Len(CharsOf(v)) > 0
      [] IsDict(v) -> Len(ItemsOf(v)) > 0
      [] IsList(v) -> Len(ElemsOf(v)) > 0
      [] OTHER -> TRUE

(***************************************************************************)
(* str(n) for an int: the decimal digits, most significant first.          *)
(***************************************************************************)
Digit(d) ==
    CASE d = 0 -> "0" [] d = 1 -> "1" [] d = 2 -> "2" [] d = 3 -> "3"
      [] d = 4 -> "4" [] d = 5 -> "5" [] d = 6 -> "6" [] d = 7 -> "7"
      [] d = 8 -> "8" [] d = 9 -> "9"

RECURSIVE NatToStr(_)
NatToStr(n) == IF n < 10 THEN <<Digit(n)>>
               ELSE NatToStr(n \div 10) \o <<Digit(n % 10)>>

\* str(v) of an int or a bool
str(v) ==
    CASE v.t = "int" -> IF v.n < 0 THEN <<"-">> \o NatToStr(0 - v.n)
                        ELSE NatToStr(v.n)
      [] v.t = "bool" -> IF v.b THEN <<"T", "r", "u", "e">>
                         ELSE <<"F", "a", "l", "s", "e">>

\* s.startswith(p), s.endswith(p) on character sequences
StartsWith(s, p) == Len(s) >= Len(p) /\ SubSeq(s, 1, Len(p)) = p
EndsWith(s, p) ==
    Len(s) >= Len(p) /\ SubSeq(s, Len(s) - Len(p) + 1, Len(s)) = p

\* class StringTemplate(str): raw_string = str(content)
StringTemplate(content) ==
    [t |-> "StringTemplate", raw_string |-> CharsOf(content)]

(***************************************************************************)
(* The built-in dict, as an insertion-ordered sequence of entries.         *)
(***************************************************************************)
DictKeys(items) == [i \in 1..Len(items) |-> items[i].k]
DictContains(items, key) == \E i \in 1..Len(items) : items[i].k = key
IndexOf(items, key) == CHOOSE i \in 1..Len(items) : items[i].k = key
DictGetItem(items, key) == items[IndexOf(items, key)].v

\* a dict that re-inserts an overwritten key at the end
DictSetItem_move_to_end(items, key, value) ==
    Append(SelectSeq(items, LAMBDA e : e.k # key), Item(key, value))

\* dict.__setitem__: an existing key keeps its position, a new key goes last
DictSetItem(items, key, value) ==
    IF DictContains(items, key)
    THEN [items EXCEPT ![IndexOf(items, key)] = Item(key, value)]
    ELSE Append(items, Item(key, value))

\* dict.__delitem__ on a present key
DictDelItem(items, key) ==
    LET i == IndexOf(items, key)
    IN  SubSeq(items, 1, i - 1) \o SubSeq(items, i + 1, Len(items))

(***************************************************************************)
(* dict(x), the super().__init__(dict_value) of Config.__init__: a mapping *)
(* is copied; a sequence must consist of (key, value) pairs with hashable  *)
(* keys; anything else raises.                                             *)
(***************************************************************************)
Hashable(v) == v.t \in {"None", "int", "bool", "str"}
IterLen(e) ==
    CASE IsList(e) -> Len(ElemsOf(e))
      [] IsStr(e) -> Len(CharsOf(e))
      [] IsDict(e) -> Len(ItemsOf(e))
      [] OTHER -> -1        \* not iterable
PairOf(e) ==
    CASE IsList(e) -> Item(ElemsOf(e)[1], ElemsOf(e)[2])
      [] IsStr(e) -> Item(StrV(<<CharsOf(e)[1]>>), StrV(<<CharsOf(e)[2]>>))
      [] IsDict(e) -> Item(ItemsOf(e)[1].k, ItemsOf(e)[2].k)

DictInitRaises(x) ==
    CASE IsDict(x) -> FALSE
      [] IsList(x) -> \E i \in 1..Len(ElemsOf(x)) :
                          \/ IterLen(ElemsOf(x)[i]) # 2
                          \/ ~Hashable(PairOf(ElemsOf(x)[i]).k)
      [] IsStr(x) -> Len(CharsOf(x)) > 0
      [] OTHER -> TRUE

RECURSIVE DictFromPairs(_, _, _)
DictFromPairs(items, elems, i) ==
    IF i > Len(elems) THEN items
    ELSE DictFromPairs(
            DictSetItem(items, PairOf(elems[i]).k, PairOf(elems[i]).v),
            elems, i + 1)

DictInit(x) ==
    CASE IsDict(x) -> ItemsOf(x)
      [] IsList(x) -> DictFromPairs(<<>>, ElemsOf(x), 1)
      [] OTHER -> <<>>

(***************************************************************************)
(* class Config: construction and value conversion.  An operation on a     *)
(* Config takes the object and yields the object after the operation.      *)
(***************************************************************************)
RESERVED == {StrV(<<"_", "y", "a", "m", "l", "_", "p", "a", "t", "h">>),
             StrV(<<"_", "p", "a", "r", "e", "n", "t">>),
             StrV(<<"_", "p", "a", "r", "e", "n", "t", "_", "k", "e", "y">>)}

RECURSIVE Config(_)
RECURSIVE Config_convert_to_config(_, _, _)
RECURSIVE Config_convert_value(_, _)
RECURSIVE Config_convert_items(_, _)
RECURSIVE Config_process_value(_, _, _)
RECURSIVE Config_process_items(_, _, _)
RECURSIVE Config_setitem(_, _, _)

\* [self._convert_value(item) for item in value]
Config_convert_items(elems, i) ==
    IF i > Len(elems) THEN <<>>
    ELSE <<Config_convert_value(elems[i], None)>>
             \o Config_convert_items(elems, i + 1)

\* a _convert_value that turns numbers into templates of their string form
Config_convert_value_stringify(value, key) ==
    CASE IsDict(value) /\ ~IsConfig(value) -> Config(value)
      [] IsList(value) -> MkSafeList(Config_convert_items(ElemsOf(value), 1))
      [] value = None -> None
      [] IsNumber(value) -> StringTemplate(StrV(str(value)))
      [] IsStr(value) -> StringTemplate(value)
      [] IsConfig(value) -> value
      [] OTHER -> SafeAttributeAccess(value)

\* Config._convert_value(value, key)
Config_convert_value(value, key) ==
    CASE IsDict(value) /\ ~IsConfig(value) -> Config(value)
      [] IsList(value) -> MkSafeList(Config_convert_items(ElemsOf(value), 1))
      [] value = None -> None
      [] IsNumber(value) -> SafeAttributeAccess(value)
      [] IsStr(value) -> StringTemplate(value)
      [] IsConfig(value) -> value
      [] OTHER -> SafeAttributeAccess(value)

\* [self._process_value(item) for item in value]
Config_process_items(self, elems, i) ==
    IF i > Len(elems) THEN <<>>
    ELSE <<Config_process_value(self, elems[i], None)>>
             \o Config_process_items(self, elems, i + 1)

\* a _process_value that turns a number into a template for any key
Config_process_value_any_key(self, value, key) ==
    CASE IsDict(value) /\ ~IsConfig(value) -> Config(value)
      [] IsList(value) /\ ~IsSafeList(value) ->
            MkSafeList(Config_process_items(self, ElemsOf(value), 1))
      [] IsStr(value) /\ ~IsStringTemplate(value) -> StringTemplate(value)
      [] IsNumber(value) /\ key # None -> StringTemplate(StrV(str(value)))
      [] value = None -> None
      [] IsNumber(value) /\ ~IsSafeAttributeAccess(value) ->
            SafeAttributeAccess(value)
      [] OTHER -> value

\* Config._process_value(value, key)
Config_process_value(self, value, key) ==
    CASE IsDict(value) /\ ~IsConfig(value) -> Config(value)
      [] IsList(value) /\ ~IsSafeList(value) ->
            MkSafeList(Config_process_items(self, ElemsOf(value), 1))
      [] IsStr(value) /\ ~IsStringTemplate(value) -> StringTemplate(value)
      [] /\ IsNumber(value)
         /\ key # None
         /\ DictContains(ItemsOf(self), key)
         /\ IsStringTemplate(DictGetItem(ItemsOf(self), key)) ->
            StringTemplate(StrV(str(value)))
      [] value = None -> None
      [] IsNumber(value) /\ ~IsSafeAttributeAccess(value) ->
            SafeAttributeAccess(value)
      [] OTHER -> value

\* Config.__setitem__(key, value)
Config_setitem(self, key, value) ==
    IF key \in RESERVED
    THEN MkConfig(DictSetItem(ItemsOf(self), key, value))
    ELSE MkConfig(DictSetItem(ItemsOf(self), key,
                              Config_process_value(self, value, key)))

\* Config._convert_to_config(): over a snapshot of the entries
Config_convert_to_config(self, snapshot, i) ==
    IF i > Len(snapshot) THEN self
    ELSE Config_convert_to_config(
            Config_setitem(self, snapshot[i].k,
                           Config_convert_value(snapshot[i].v, snapshot[i].k)),
            snapshot, i + 1)

\* Config.__init__(dict_value), for a dict_value that dict() accepts
Config(dict_value) ==
    LET dv == IF Truthy(dict_value) THEN dict_value ELSE DictV(<<>>)
        self == MkConfig(DictInit(dv))
    IN  Config_convert_to_config(self, ItemsOf(self), 1)

\* Config.__init__ raises exactly when dict() rejects the argument
ConfigRaises(dict_value) == Truthy(dict_value) /\ DictInitRaises(dict_value)

(***************************************************************************)
(* Config._to_serializable and its local _serialize.                       *)
(***************************************************************************)
RECURSIVE Config_to_serializable(_)
RECURSIVE Serialize(_)
RECURSIVE SerializeElems(_, _)
RECURSIVE SerializeDictItems(_, _)
RECURSIVE SerializeConfigItems(_, _)
RECURSIVE SerializeRaises(_)

SerializeElems(elems, i) ==
    IF i > Len(elems) THEN <<>>
    ELSE <<Serialize(elems[i])>> \o SerializeElems(elems, i + 1)

\* {k: _serialize(val) for k, val in v.items()}
SerializeDictItems(items, i) ==
    IF i > Len(items) THEN <<>>
    ELSE <<Item(items[i].k, Serialize(items[i].v))>>
             \o SerializeDictItems(items, i + 1)

\* the loop of _to_serializable: keys starting with "_" are skipped
SerializeConfigItems(items, i) ==
    IF i > Len(items) THEN <<>>
    ELSE IF StartsWith(CharsOf(items[i].k), <<"_">>)
         THEN SerializeConfigItems(items, i + 1)
         ELSE <<Item(items[i].k, Serialize(items[i].v))>>
                  \o SerializeConfigItems(items, i + 1)

\* a _serialize that forgets to unwrap a SafeAttributeAccess
Serialize_keeps_proxy(v) ==
    CASE IsConfig(v) -> Config_to_serializable(v)
      [] IsStringTemplate(v) -> StrV(v.raw_string)
      [] IsList(v) -> ListV(SerializeElems(ElemsOf(v), 1))
      [] IsDict(v) -> DictV(SerializeDictItems(ItemsOf(v), 1))
      [] OTHER -> v

\* _serialize(v)
Serialize(v) ==
    CASE IsConfig(v) -> Config_to_serializable(v)
      [] IsStringTemplate(v) -> StrV(v.raw_string)
      [] IsSafeAttributeAccess(v) -> v.wrapped_object
      [] IsList(v) -> ListV(SerializeElems(ElemsOf(v), 1))
      [] IsDict(v) -> DictV(SerializeDictItems(ItemsOf(v), 1))
      [] OTHER -> v

Config_to_serializable(self) == DictV(SerializeConfigItems(ItemsOf(self), 1))

\* k.startswith('_') raises AttributeError when a key of a Config is no str
SerializeRaises(v) ==
    CASE IsConfig(v) ->
            \E i \in 1..Len(ItemsOf(v)) :
                \/ ~IsStr(ItemsOf(v)[i].k)
                \/ /\ ~StartsWith(CharsOf(ItemsOf(v)[i].k), <<"_">>)
                   /\ SerializeRaises(ItemsOf(v)[i].v)
      [] IsSafeAttributeAccess(v) -> FALSE
      [] IsList(v) -> \E i \in 1..Len(ElemsOf(v)) : SerializeRaises(ElemsOf(v)[i])
      [] IsDict(v) ->
            \E i \in 1..Len(ItemsOf(v)) : SerializeRaises(ItemsOf(v)[i].v)
      [] OTHER -> FALSE

(***************************************************************************)
(* Attribute names, as character sequences.                                *)
(***************************************************************************)
N_a == <<"a">>
N_b == <<"b">>
N_u == <<"_", "u">>
N_yaml_path == <<"_", "y", "a", "m", "l", "_", "p", "a", "t", "h">>
N_update == <<"u", "p", "d", "a", "t", "e">>
N_keys == <<"k", "e", "y", "s">>
N_setdefault == <<"s", "e", "t", "d", "e", "f", "a", "u", "l", "t">>
N_fromkeys == <<"f", "r", "o", "m", "k", "e", "y", "s">>
N_dunder == <<"_", "_", "x", "_", "_">>

\* the names Config.__getattribute__ passes through to dict
DICT_METHODS ==
    {N_keys, <<"v", "a", "l", "u", "e", "s">>, <<"g", "e", "t">>,
     <<"p", "o", "p">>, <<"p", "o", "p", "i", "t", "e", "m">>, N_setdefault,
     N_update, <<"c", "l", "e", "a", "r">>, <<"c", "o", "p", "y">>,
     <<"i", "t", "e", "m", "s">>}

\* further public attributes that class dict defines
DICT_OTHER_ATTRS == {N_fromkeys}

\* a bound method, as a value
Method(name) == [t |-> "method", name |-> name]

\* the outcome of an expression: a value, or an exception raised
Ok(v) == [raised |-> FALSE, value |-> v]
Raise(exc) == [raised |-> TRUE, value |-> StrV(exc)]
AttributeError == <<"AttributeError">>
KeyError == <<"KeyError">>
TypeError == <<"TypeError">>
ValueError == <<"ValueError">>

\* object.__getattribute__ on a Config for a name starting with "_":
\* the bookkeeping attributes exist, other names do not
ObjectGetAttribute(self, self_yaml_path, key) ==
    IF key = N_yaml_path THEN Ok(self_yaml_path)
    ELSE Raise(AttributeError)

\* Config.__getattribute__(key)
Config_getattribute(self, self_yaml_path, key) ==
    IF StartsWith(key, <<"_">>) \/ StartsWith(key, <<"_", "_">>)
    THEN ObjectGetAttribute(self, self_yaml_path, key)
    ELSE IF key \in DICT_METHODS
    THEN IF DictContains(ItemsOf(self), StrV(key))
         THEN Ok(DictGetItem(ItemsOf(self), StrV(key)))
         ELSE Ok(Method(key))
    ELSE IF DictContains(ItemsOf(self), StrV(key))
    THEN Ok(DictGetItem(ItemsOf(self), StrV(key)))
    ELSE IF key \in DICT_OTHER_ATTRS
    THEN Ok(Method(key))
    ELSE Ok(None)

\* getattr(obj, key) for any value a navigation step can yield
GetAttr(obj, obj_yaml_path, key) ==
    CASE IsConfig(obj) -> Config_getattribute(obj, obj_yaml_path, key)
      [] IsStringTemplate(obj) -> Ok(None)       \* StringTemplate.__getattr__
      [] IsSafeAttributeAccess(obj) -> Ok(None)  \* SafeAttributeAccess.__getattr__
      [] obj.t = "dict" /\ key \in DICT_METHODS \cup DICT_OTHER_ATTRS ->
            Ok(Method(key))
      [] OTHER -> Raise(AttributeError)   \* None, SafeList, methods, raw values

\* obj.k1.k2. ... .kn, left to right; stops at the first exception
RECURSIVE GetAttrChain(_, _, _, _)
GetAttrChain(obj, obj_yaml_path, path, i) ==
    IF i > Len(path) THEN Ok(obj)
    ELSE LET r == GetAttr(obj, obj_yaml_path, path[i])
         IN  IF r.raised THEN r
             ELSE GetAttrChain(r.value, None, path, i + 1)

\* Config.__setattr__(key, value): the object after it, for the names that
\* reach the mapping; bookkeeping and dunder names set instance attributes
SetsInstanceAttribute(key) ==
    \/ StrV(key) \in RESERVED
    \/ StartsWith(key, <<"_", "_">>) /\ EndsWith(key, <<"_", "_">>)

Config_setattr(self, key, value) ==
    IF SetsInstanceAttribute(key) THEN self
    ELSE Config_setitem(self, StrV(key), value)

\* Config.__delattr__(key)
Config_delattr(self, key) ==
    IF StartsWith(key, <<"_", "_">>) /\ EndsWith(key, <<"_", "_">>)
    THEN [raised |-> TRUE, self |-> self]    \* object.__delattr__: no such attribute
    ELSE IF DictContains(ItemsOf(self), StrV(key))
    THEN [raised |-> FALSE, self |-> MkConfig(DictDelItem(ItemsOf(self), StrV(key)))]
    ELSE [raised |-> FALSE, self |-> self]   \* KeyError caught

\* del self[key]: dict.__delitem__, which Config does not override
Config_delitem(self, key) ==
    IF DictContains(ItemsOf(self), key)
    THEN [raised |-> FALSE, self |-> MkConfig(DictDelItem(ItemsOf(self), key))]
    ELSE [raised |-> TRUE, self |-> self]    \* KeyError

\* dict.update(m): the inherited method stores each entry as it is, without
\* calling Config.__setitem__
RECURSIVE DictUpdate(_, _, _)
DictUpdate(items, m, i) ==
    IF i > Len(m) THEN items
    ELSE DictUpdate(DictSetItem(items, m[i].k, m[i].v), m, i + 1)

\* self.update(m): the attribute lookup, then the call
Config_update(self, m) ==
    LET f == Config_getattribute(self, None, N_update)
    IN  IF f.value = Method(N_update)
        THEN [raised |-> FALSE,
              self |-> MkConfig(DictUpdate(ItemsOf(self), ItemsOf(m), 1))]
        ELSE [raised |-> TRUE, self |-> self]   \* the data value is not callable

\* self.setdefault(key, default): the inherited dict.setdefault
Config_setdefault(self, key, default) ==
    LET f == Config_getattribute(self, None, N_setdefault)
    IN  IF f.value = Method(N_setdefault)
        THEN [raised |-> FALSE,
              self |-> IF DictContains(ItemsOf(self), key) THEN self
                       ELSE MkConfig(Append(ItemsOf(self), Item(key, default)))]
        ELSE [raised |-> TRUE, self |-> self]

(***************************************************************************)
(* class SafeList.                                                         *)
(***************************************************************************)
\* SafeList._process_value(value)
SafeList_process_value(value) ==
    CASE IsDict(value) /\ ~IsConfig(value) -> Config(value)
      [] IsList(value) /\ ~IsSafeList(value) -> MkSafeList(ElemsOf(value))
      [] IsStr(value) /\ ~IsStringTemplate(value) -> StringTemplate(value)
      [] value = None -> None
      [] IsNumber(value) /\ ~IsSafeAttributeAccess(value) ->
            SafeAttributeAccess(value)
      [] OTHER -> value

SafeList_append(self, value) ==
    MkSafeList(Append(ElemsOf(self), SafeList_process_value(value)))

\* list.insert(index, x) for 0 <= index <= len
SafeList_insert(self, index, value) ==
    MkSafeList(SubSeq(ElemsOf(self), 1, index)
                 \o <<SafeList_process_value(value)>>
                 \o SubSeq(ElemsOf(self), index + 1, Len(ElemsOf(self))))

SafeList_extend(self, values) ==
    MkSafeList(ElemsOf(self)
                 \o [i \in 1..Len(values) |-> SafeList_process_value(values[i])])

\* self[index] = value for 0 <= index < len
SafeList_setitem(self, index, value) ==
    MkSafeList([ElemsOf(self) EXCEPT ![index + 1] = SafeList_process_value(value)])

(***************************************************************************)
(* StringTemplate.render.  The template engine substitutes {{ name }} by   *)
(* the binding of name (nothing when unbound); an unclosed {{ is a syntax  *)
(* error.  bindings is a function from names to strings.                   *)
(***************************************************************************)
\* '{{' in s
HasMarker(s) == \E i \in 1..(Len(s) - 1) : s[i] = "{" /\ s[i + 1] = "{"

\* the position of the first "}}" at or after i, or 0
CloseAt(s, i) ==
    LET C == {j \in i..(Len(s) - 1) : s[j] = "}" /\ s[j + 1] = "}"}
    IN  IF C = {} THEN 0 ELSE CHOOSE j \in C : \A k \in C : j <= k

\* the name inside a marker, without its blanks
StripBlanks(s) == SelectSeq(s, LAMBDA c : c # " ")

\* env.from_string(s) raises on a marker that is never closed
RECURSIVE TemplateSyntaxError(_)
TemplateSyntaxError(s) ==
    IF Len(s) < 2 THEN FALSE
    ELSE IF s[1] = "{" /\ s[2] = "{"
         THEN IF CloseAt(s, 3) = 0 THEN TRUE
              ELSE TemplateSyntaxError(SubSeq(s, CloseAt(s, 3) + 2, Len(s)))
         ELSE TemplateSyntaxError(Tail(s))

\* env.from_string(s).render(**context): one expansion pass
RECURSIVE Expand(_, _)
Expand(s, context) ==
    IF Len(s) < 2 THEN s
    ELSE IF s[1] = "{" /\ s[2] = "{"
         THEN LET j == CloseAt(s, 3)
                  name == StripBlanks(SubSeq(s, 3, j - 1))
                  bound == IF name \in DOMAIN context THEN context[name] ELSE <<>>
              IN  bound \o Expand(SubSeq(s, j + 2, Len(s)), context)
         ELSE <<s[1]>> \o Expand(Tail(s), context)

\* a render without the third pass
render_two_passes(self, kwargs) ==
    LET context == kwargs
        pass1 == Expand(self.raw_string, context)
        pass2 == Expand(pass1, context)
    IN  IF TemplateSyntaxError(self.raw_string) THEN Raise(<<"TemplateSyntaxError">>)
        ELSE IF ~HasMarker(pass1) THEN Ok(StrV(pass1))
        ELSE IF TemplateSyntaxError(pass1) THEN Raise(<<"TemplateSyntaxError">>)
        ELSE Ok(StrV(pass2))

\* StringTemplate.render(**kwargs): up to three passes
render(self, kwargs) ==
    LET context == kwargs
        pass1 == Expand(self.raw_string, context)
        pass2 == Expand(pass1, context)
        pass3 == Expand(pass2, context)
    IN  IF TemplateSyntaxError(self.raw_string) THEN Raise(<<"TemplateSyntaxError">>)
        ELSE IF ~HasMarker(pass1) THEN Ok(StrV(pass1))
        ELSE IF TemplateSyntaxError(pass1) THEN Raise(<<"TemplateSyntaxError">>)
        ELSE IF ~HasMarker(pass2) THEN Ok(StrV(pass2))
        ELSE IF TemplateSyntaxError(pass2) THEN Raise(<<"TemplateSyntaxError">>)
        ELSE Ok(StrV(pass3))

(***************************************************************************)
(* The file system and the load / dump facade.  A path is the sequence of  *)
(* its components; an absolute path starts with "/".  A file holds the     *)
(* plain document the YAML parser reads from it.                           *)
(***************************************************************************)
Cwd == <<"/", "w">>
P_rel == <<"g">>                 \* a relative path, in the working directory
P_abs == <<"/", "d", "f">>       \* an absolute path, in the directory /d
P_dir == <<"/", "d">>

\* os.path.abspath(path)
abspath(path) == IF Len(path) > 0 /\ path[1] = "/" THEN path ELSE Cwd \o path

\* os.path.dirname(full_path)
dirname(full_path) == SubSeq(full_path, 1, Len(full_path) - 1)

Root == <<"/">>
Paths == {abspath(P_rel), P_abs, P_dir, Cwd, Root}

Absent == [kind |-> "absent", data |-> None]
Directory == [kind |-> "dir", data |-> None]
Unreadable == [kind |-> "unreadable", data |-> None]   \* permission denied
Malformed == [kind |-> "malformed", data |-> None]     \* not parseable
Document(data) == [kind |-> "doc", data |-> data]

\* os.path.exists(path)
exists(files, path) == files[path].kind # "absent"

\* the body of load's try block: open, yaml.safe_load, Config(data)
LoadTry(files, full_path) ==
    IF files[full_path].kind # "doc" THEN Raise(<<"Exception">>)
    ELSE LET loaded == files[full_path].data
             data == IF Truthy(loaded) THEN loaded ELSE DictV(<<>>)
         IN  IF ConfigRaises(data) THEN Raise(TypeError) ELSE Ok(Config(data))

\* a load whose try block has no except clause
load_no_except(files, file_path) ==
    LET full_path == abspath(file_path)
    IN  IF ~exists(files, full_path)
        THEN [raised |-> FALSE, config |-> Config(DictV(<<>>)),
              yaml_path |-> StrV(full_path)]
        ELSE IF LoadTry(files, full_path).raised
        THEN [raised |-> TRUE, config |-> MkConfig(<<>>), yaml_path |-> None]
        ELSE [raised |-> FALSE, config |-> LoadTry(files, full_path).value,
              yaml_path |-> StrV(full_path)]

\* load(file_path): the Config returned and its _yaml_path
load(files, file_path) ==
    LET full_path == abspath(file_path)
    IN  IF ~exists(files, full_path)
        THEN [raised |-> FALSE, config |-> Config(DictV(<<>>)),
              yaml_path |-> StrV(full_path)]
        ELSE IF LoadTry(files, full_path).raised
        THEN [raised |-> FALSE, config |-> Config(DictV(<<>>)),
              yaml_path |-> StrV(full_path)]
        ELSE [raised |-> FALSE, config |-> LoadTry(files, full_path).value,
              yaml_path |-> StrV(full_path)]

\* what the environment does to a dump
DumpEnvs == {"ok", "makedirs fails", "open fails", "yaml.dump fails"}

\* the body of dump's try block: the file system after it, and whether it raised
DumpTry(files, config, full_path, env) ==
    LET directory == dirname(full_path)
        makes == Len(directory) > 0 /\ ~exists(files, directory)
        made == IF makes THEN [files EXCEPT ![directory] = Directory] ELSE files
    IN  IF makes /\ env = "makedirs fails"
        THEN [raised |-> TRUE, files |-> files]
        ELSE IF SerializeRaises(config)
        THEN [raised |-> TRUE, files |-> made]
        ELSE IF \/ made[full_path].kind \in {"dir", "unreadable"}
                \/ env = "open fails"
        THEN [raised |-> TRUE, files |-> made]
        ELSE IF env = "yaml.dump fails"     \* the file is already truncated
        THEN [raised |-> TRUE, files |-> [made EXCEPT ![full_path] = Document(None)]]
        ELSE [raised |-> FALSE,
              files |-> [made EXCEPT ![full_path] =
                                Document(Config_to_serializable(config))]]

\* a dump that prefers the bound location to the explicit one
dump_bound_first(files, config, config_yaml_path, file_path, env) ==
    IF ~IsConfig(config)
    THEN [raised |-> TRUE, ret |-> None, files |-> files]
    ELSE LET yaml_path_ == IF Truthy(config_yaml_path) THEN config_yaml_path
                           ELSE file_path
         IN  IF ~Truthy(yaml_path_)
             THEN [raised |-> TRUE, ret |-> None, files |-> files]
             ELSE LET r == DumpTry(files, config, abspath(CharsOf(yaml_path_)), env)
                  IN  [raised |-> FALSE, ret |-> BoolV(~r.raised), files |-> r.files]

\* dump(config, file_path): config_yaml_path is config._yaml_path
dump(files, config, config_yaml_path, file_path, env) ==
    IF ~IsConfig(config)
    THEN [raised |-> TRUE, ret |-> None, files |-> files]      \* TypeError
    ELSE LET yaml_path_ == IF Truthy(file_path) THEN file_path ELSE config_yaml_path
         IN  IF ~Truthy(yaml_path_)
             THEN [raised |-> TRUE, ret |-> None, files |-> files]   \* ValueError
             ELSE LET r == DumpTry(files, config, abspath(CharsOf(yaml_path_)), env)
                  IN  [raised |-> FALSE, ret |-> BoolV(~r.raised), files |-> r.files]

(***************************************************************************)
(* The inputs the operations are tried on.                                 *)
(***************************************************************************)
K_a == StrV(N_a)
K_b == StrV(N_b)
K_u == StrV(N_u)
K_yaml_path == StrV(N_yaml_path)
K_update == StrV(N_update)
K_int == IntV(1)

S_s == StrV(<<"s">>)
S_t == StrV(<<"t", "{", "{", "v", "}", "}">>)    \* "t{{v}}"
I_12 == IntV(12)

\* plain values given to set, setdefault, append, insert and item-set
ArgValues ==
    {None, I_12, BoolV(TRUE), S_s,
     DictV(<<Item(K_b, I_12)>>),
     ListV(<<I_12, ListV(<<S_s>>)>>)}

\* plain mappings given to update
Mappings ==
    {DictV(<<Item(K_b, S_s), Item(K_a, DictV(<<Item(K_b, I_12)>>))>>),
     DictV(<<Item(K_a, I_12)>>),
     DictV(<<Item(K_update, ListV(<<I_12>>))>>)}

\* plain sequences given to extend
Sequences_ == {<<I_12, S_s>>, <<ListV(<<I_12>>)>>}

SetKeys == {K_a, K_b, K_yaml_path}
AttrNames == {N_a, N_b, N_dunder}
DelNames == {N_a, N_b, N_dunder}
DelKeys == {K_a, K_b}
Targets == {None, K_a}         \* the root, or the Config stored under "a"
ListKeys == {K_b}              \* the SafeList stored under "b"

\* dot-paths read from the root
ReadNames == {N_a, N_b, N_u, N_yaml_path, N_update, N_fromkeys}
ReadPaths == {<<n>> : n \in ReadNames} \cup {<<n, N_a>> : n \in ReadNames}

\* bindings given to render
Bindings == {<<>>, [n \in {<<"v">>} |-> <<"s">>]}

\* constructor arguments the tree starts from
InitDocs ==
    {DictV(<<>>),
     DictV(<<Item(K_a, DictV(<<Item(K_b, S_s)>>)), Item(K_b, ListV(<<I_12>>))>>),
     DictV(<<Item(K_a, S_s), Item(K_b, I_12)>>),
     DictV(<<Item(K_b, S_t), Item(K_yaml_path, S_s)>>)}

InitFiles ==
    [p \in Paths |-> IF p \in {Cwd, Root} THEN Directory ELSE Absent]

(***************************************************************************)
(* The state machine.                                                      *)
(***************************************************************************)
Op(op, target, key, arg, env, raised, ret) ==
    [op |-> op, target |-> target, key |-> key, arg |-> arg, env |-> env,
     raised |-> raised, ret |-> ret]

\* the Config an operation is applied to: the root or a nested Config
TargetOk(tk) ==
    \/ tk = None
    \/ /\ DictContains(ItemsOf(cfg), tk)
       /\ IsConfig(DictGetItem(ItemsOf(cfg), tk))
TargetOf(tk) == IF tk = None THEN cfg ELSE DictGetItem(ItemsOf(cfg), tk)

\* the root after the target object changed in place
WithTarget(tk, self) ==
    IF tk = None THEN self ELSE MkConfig(DictSetItem(ItemsOf(cfg), tk, self))

\* the history of root keys, kept as the operations are described:
\* a set of a new key appends it, a delete removes it
OrderSet(o, key) ==
    IF \E i \in 1..Len(o) : o[i] = key THEN o ELSE Append(o, key)
OrderDel(o, key) == SelectSeq(o, LAMBDA x : x # key)
RECURSIVE OrderMerge(_, _, _)
OrderMerge(o, m, i) ==
    IF i > Len(m) THEN o ELSE OrderMerge(OrderSet(o, m[i].k), m, i + 1)

\* no threads, no lock holder, no tracked identities, no render in progress
NoExt ==
    /\ thr = <<>>
    /\ lock = None
    /\ heap = <<>>
    /\ bindings = <<>>
    /\ passes = <<>>

Init ==
    /\ NoExt
    /\ \E x \in InitDocs : cfg = Config(x)
    /\ yaml_path = None
    /\ fs = InitFiles
    /\ last = Op("Config", None, None, None, "", FALSE, None)
    /\ order = DictKeys(ItemsOf(cfg))
    /\ steps = 0

\* target[key] = value
SetItem(tk, key, value) ==
    /\ steps < MaxSteps
    /\ TargetOk(tk)
    /\ cfg' = WithTarget(tk, Config_setitem(TargetOf(tk), key, value))
    /\ last' = Op("setitem", tk, key, value, "", FALSE, None)
    /\ order' = IF tk = None THEN OrderSet(order, key) ELSE order
    /\ steps' = steps + 1
    /\ UNCHANGED <<yaml_path, fs, ext>>

\* target.name = value, for a name that is not a bookkeeping attribute
SetAttr(tk, name, value) ==
    /\ steps < MaxSteps
    /\ TargetOk(tk)
    /\ StrV(name) \notin RESERVED
    /\ cfg' = WithTarget(tk, Config_setattr(TargetOf(tk), name, value))
    /\ last' = Op("setattr", tk, StrV(name), value, "", FALSE, None)
    /\ order' = IF tk = None /\ ~SetsInstanceAttribute(name)
                THEN OrderSet(order, StrV(name)) ELSE order
    /\ steps' = steps + 1
    /\ UNCHANGED <<yaml_path, fs, ext>>

\* target.update(m)
Update(tk, m) ==
    /\ steps < MaxSteps
    /\ TargetOk(tk)
    /\ LET r == Config_update(TargetOf(tk), m)
       IN  /\ cfg' = WithTarget(tk, r.self)
           /\ last' = Op("update", tk, None, m, "", r.raised, None)
           /\ order' = IF tk = None /\ ~r.raised
                       THEN OrderMerge(order, ItemsOf(m), 1) ELSE order
    /\ steps' = steps + 1
    /\ UNCHANGED <<yaml_path, fs, ext>>

\* target.setdefault(key, value)
SetDefault(tk, key, value) ==
    /\ steps < MaxSteps
    /\ TargetOk(tk)
    /\ LET r == Config_setdefault(TargetOf(tk), key, value)
       IN  /\ cfg' = WithTarget(tk, r.self)
           /\ last' = Op("setdefault", tk, key, value, "", r.raised, None)
           /\ order' = IF tk = None /\ ~r.raised
                       THEN OrderSet(order, key) ELSE order
    /\ steps' = steps + 1
    /\ UNCHANGED <<yaml_path, fs, ext>>

\* del target.name
DelAttr(tk, name) ==
    /\ steps < MaxSteps
    /\ TargetOk(tk)
    /\ LET r == Config_delattr(TargetOf(tk), name)
       IN  /\ cfg' = WithTarget(tk, r.self)
           /\ last' = Op("delattr", tk, StrV(name), None, "", r.raised, None)
    /\ order' = IF tk = None THEN OrderDel(order, StrV(name)) ELSE order
    /\ steps' = steps + 1
    /\ UNCHANGED <<yaml_path, fs, ext>>

\* del target[key]
DelItem(tk, key) ==
    /\ steps < MaxSteps
    /\ TargetOk(tk)
    /\ LET r == Config_delitem(TargetOf(tk), key)
       IN  /\ cfg' = WithTarget(tk, r.self)
           /\ last' = Op("delitem", tk, key, None, "", r.raised, None)
    /\ order' = IF tk = None THEN OrderDel(order, key) ELSE order
    /\ steps' = steps + 1
    /\ UNCHANGED <<yaml_path, fs, ext>>

\* the SafeList stored under a root key
ListOk(lk) ==
    /\ DictContains(ItemsOf(cfg), lk)
    /\ IsSafeList(DictGetItem(ItemsOf(cfg), lk))
ListOf(lk) == DictGetItem(ItemsOf(cfg), lk)
WithList(lk, self) == MkConfig(DictSetItem(ItemsOf(cfg), lk, self))

\* cfg.lk.append(value)
ListAppend(lk, value) ==
    /\ steps < MaxSteps
    /\ ListOk(lk)
    /\ Len(ElemsOf(ListOf(lk))) < MaxListLen
    /\ cfg' = WithList(lk, SafeList_append(ListOf(lk), value))
    /\ last' = Op("append", lk, None, value, "", FALSE, None)
    /\ steps' = steps + 1
    /\ UNCHANGED <<yaml_path, fs, order, ext>>

\* cfg.lk.insert(index, value)
ListInsert(lk, index, value) ==
    /\ steps < MaxSteps
    /\ ListOk(lk)
    /\ Len(ElemsOf(ListOf(lk))) < MaxListLen
    /\ index \in 0..Len(ElemsOf(ListOf(lk)))
    /\ cfg' = WithList(lk, SafeList_insert(ListOf(lk), index, value))
    /\ last' = Op("insert", lk, IntV(index), value, "", FALSE, None)
    /\ steps' = steps + 1
    /\ UNCHANGED <<yaml_path, fs, order, ext>>

\* cfg.lk.extend(values)
ListExtend(lk, values) ==
    /\ steps < MaxSteps
    /\ ListOk(lk)
    /\ Len(ElemsOf(ListOf(lk))) + Len(values) <= MaxListLen
    /\ cfg' = WithList(lk, SafeList_extend(ListOf(lk), values))
    /\ last' = Op("extend", lk, None, ListV(values), "", FALSE, None)
    /\ steps' = steps + 1
    /\ UNCHANGED <<yaml_path, fs, order, ext>>

\* cfg.lk[index] = value
ListSetItem(lk, index, value) ==
    /\ steps < MaxSteps
    /\ ListOk(lk)
    /\ index \in 0..(Len(ElemsOf(ListOf(lk))) - 1)
    /\ cfg' = WithList(lk, SafeList_setitem(ListOf(lk), index, value))
    /\ last' = Op("list setitem", lk, IntV(index), value, "", FALSE, None)
    /\ steps' = steps + 1
    /\ UNCHANGED <<yaml_path, fs, order, ext>>

\* cfg.k1.k2. ... .kn
Read(path) ==
    /\ steps < MaxSteps
    /\ LET r == GetAttrChain(cfg, yaml_path, path, 1)
       IN  last' = Op("read", None, StrV(path[1]),
                      ListV([i \in 1..Len(path) |-> StrV(path[i])]), "",
                      r.raised, r.value)
    /\ steps' = steps + 1
    /\ UNCHANGED <<cfg, yaml_path, fs, order, ext>>

Next ==
    \/ \E tk \in Targets, m \in Mappings : Update(tk, m)
    \/ \E tk \in Targets, key \in SetKeys, value \in ArgValues :
          SetDefault(tk, key, value)
    \/ \E tk \in Targets, key \in SetKeys, value \in ArgValues :
          SetItem(tk, key, value)
    \/ \E tk \in Targets, name \in AttrNames, value \in ArgValues :
          SetAttr(tk, name, value)
    \/ \E tk \in Targets, key \in DelKeys : DelItem(tk, key)
    \/ \E tk \in Targets, name \in DelNames : DelAttr(tk, name)
    \/ \E lk \in ListKeys, value \in ArgValues : ListAppend(lk, value)
    \/ \E lk \in ListKeys, index \in 0..MaxListLen, value \in ArgValues :
          ListInsert(lk, index, value)
    \/ \E lk \in ListKeys, values \in Sequences_ : ListExtend(lk, values)
    \/ \E lk \in ListKeys, index \in 0..MaxListLen, value \in ArgValues :
          ListSetItem(lk, index, value)
    \/ \E path \in ReadPaths : Read(path)

Spec == Init /\ [][Next]_vars

(***************************************************************************)
(* The program that loads a document, edits the tree and dumps it.         *)
(***************************************************************************)
S_f == StrV(<<"f">>)
IOKeys == {K_a, K_u, K_int}
IONames == {N_a, N_u}
IOValues == {S_f, I_12, DictV(<<Item(K_u, S_s)>>)}
LoadLocs == {P_rel, P_abs, P_dir}
DumpLocs == {None, StrV(<<>>), StrV(P_abs), StrV(P_rel)}
BoundLocs == {None, StrV(P_rel)}
DumpNodes == {None, K_a}       \* the root, or the value stored under "a"

\* documents found on disk
Doc_map == DictV(<<Item(K_a, DictV(<<Item(K_b, S_s)>>)), Item(K_b, S_t)>>)
Doc_seq == ListV(<<I_12>>)
Doc_pairs == ListV(<<ListV(<<S_s, S_f>>)>>)
Doc_keys == DictV(<<Item(K_int, S_s), Item(K_u, I_12)>>)

Files(dir, abs, rel) ==
    [p \in Paths |-> CASE p \in {Cwd, Root} -> Directory
                       [] p = P_dir -> dir
                       [] p = P_abs -> abs
                       [] OTHER -> rel]
InitFS ==
    {Files(Absent, Absent, Absent),
     Files(Directory, Document(Doc_map), Malformed),
     Files(Directory, Document(Doc_seq), Unreadable),
     Files(Directory, Document(S_s), Document(None)),
     Files(Directory, Document(Doc_keys), Document(Doc_pairs))}

InitIO ==
    /\ NoExt
    /\ fs \in InitFS
    /\ \E loc \in LoadLocs :
          /\ cfg = load(fs, loc).config
          /\ yaml_path = load(fs, loc).yaml_path
          /\ last = Op("load", None, StrV(loc), None, "", load(fs, loc).raised, None)
    /\ order = DictKeys(ItemsOf(cfg))
    /\ steps = 0

\* cfg = load(loc)
Load(loc) ==
    /\ steps < MaxSteps
    /\ LET r == load(fs, loc)
       IN  /\ cfg' = r.config
           /\ yaml_path' = r.yaml_path
           /\ last' = Op("load", None, StrV(loc), None, "", r.raised, None)
           /\ order' = DictKeys(ItemsOf(r.config))
    /\ steps' = steps + 1
    /\ UNCHANGED <<fs, ext>>

\* cfg._yaml_path = loc: Config.__setattr__ on a bookkeeping name
Rebind(loc) ==
    /\ steps < MaxSteps
    /\ yaml_path' = loc
    /\ cfg' = Config_setattr(cfg, N_yaml_path, loc)
    /\ last' = Op("setattr", None, K_yaml_path, loc, "", FALSE, None)
    /\ steps' = steps + 1
    /\ UNCHANGED <<fs, order, ext>>

\* the object handed to dump and its _yaml_path: a nested Config has none
DumpNodeOk(nk) == nk = None \/ DictContains(ItemsOf(cfg), nk)
DumpNode(nk) == IF nk = None THEN cfg ELSE DictGetItem(ItemsOf(cfg), nk)
DumpNodePath(nk) == IF nk = None THEN yaml_path ELSE None

\* a dump that binds the object it wrote to the location it wrote it to
dump_rebinds(config, config_yaml_path, file_path) ==
    [config |-> config,
     yaml_path |-> IF Truthy(file_path) THEN file_path ELSE config_yaml_path]

\* the object handed to dump and its _yaml_path, after the call: dump reads
\* config._yaml_path and config's entries and assigns to neither
dump_leaves(config, config_yaml_path, file_path) ==
    [config |-> config, yaml_path |-> config_yaml_path]

\* dump(node, loc)
Dump(nk, loc, env) ==
    /\ steps < MaxSteps
    /\ DumpNodeOk(nk)
    /\ LET r == dump(fs, DumpNode(nk), DumpNodePath(nk), loc, env)
           k == dump_leaves(DumpNode(nk), DumpNodePath(nk), loc)
       IN  /\ fs' = r.files
           /\ last' = Op("dump", nk, loc, None, env, r.raised, r.ret)
           /\ cfg' = IF nk = None THEN k.config
                     ELSE MkConfig(DictSetItem(ItemsOf(cfg), nk, k.config))
           /\ yaml_path' = IF nk = None THEN k.yaml_path ELSE yaml_path
    /\ steps' = steps + 1
    /\ UNCHANGED <<order, ext>>

NextIO ==
    \/ \E loc \in LoadLocs : Load(loc)
    \/ \E tk \in Targets, key \in IOKeys, value \in IOValues :
          SetItem(tk, key, value)
    \/ \E tk \in Targets, name \in IONames, value \in IOValues :
          SetAttr(tk, name, value)
    \/ \E tk \in Targets, name \in IONames : DelAttr(tk, name)
    \/ \E tk \in Targets, key \in IOKeys : DelItem(tk, key)
    \/ \E loc \in BoundLocs : Rebind(loc)
    \/ \E nk \in DumpNodes, loc \in DumpLocs, env \in DumpEnvs : Dump(nk, loc, env)

SpecIO == InitIO /\ [][NextIO]_vars

\* the same program, which also reads dot-paths from the root
FramePaths == {<<N_a>>, <<N_b>>, <<N_a, N_b>>}

NextFrame ==
    \/ NextIO
    \/ \E path \in FramePaths : Read(path)

SpecFrame == InitIO /\ [][NextFrame]_vars

(***************************************************************************)
(* Construction followed by serialization, for every input of a bounded    *)
(* family of plain mappings.                                               *)
(***************************************************************************)
ConvScalars == {None, I_12, BoolV(TRUE), S_s}
ConvNested ==
    ConvScalars
    \cup {DictV(<<>>), ListV(<<>>)}
    \cup {DictV(<<Item(k, v)>>) : k \in {K_a, K_u}, v \in {I_12, S_s}}
    \cup {ListV(<<v>>) : v \in {None, BoolV(TRUE)}}
    \cup {ListV(<<DictV(<<Item(K_u, S_s)>>)>>),
          ListV(<<ListV(<<DictV(<<Item(K_a, I_12)>>)>>)>>),
          DictV(<<Item(K_a, ListV(<<DictV(<<Item(K_b, None)>>), S_s>>))>>)}
ConvKeys == {K_a, K_b, K_u, K_int}

\* the entry sequences with distinct keys and at most n entries
RECURSIVE EntrySeqs(_)
EntrySeqs(n) ==
    IF n = 0 THEN {<<>>}
    ELSE EntrySeqs(n - 1)
         \cup {Append(e, Item(k, v)) :
                 e \in {x \in EntrySeqs(n - 1) : Len(x) = n - 1},
                 k \in ConvKeys, v \in ConvNested}
ConvInputs ==
    {DictV(e) : e \in {x \in EntrySeqs(MaxConvLen) :
                         \A i, j \in 1..Len(x) : x[i].k = x[j].k => i = j}}

InitConv ==
    /\ NoExt
    /\ \E x \in ConvInputs : last = Op("input", None, None, x, "", FALSE, None)
    /\ cfg = MkConfig(<<>>)
    /\ yaml_path = None
    /\ fs = InitFiles
    /\ order = <<>>
    /\ steps = 0

\* cfg = Config(x)
Construct ==
    /\ last.op = "input"
    /\ cfg' = Config(last.arg)
    /\ last' = [last EXCEPT !.op = "Config"]
    /\ order' = DictKeys(ItemsOf(cfg'))
    /\ steps' = steps + 1
    /\ UNCHANGED <<yaml_path, fs, ext>>

\* cfg._to_serializable()
ToSerializable ==
    /\ last.op = "Config"
    /\ last' = [last EXCEPT !.op = "_to_serializable",
                            !.raised = SerializeRaises(cfg),
                            !.ret = IF SerializeRaises(cfg) THEN None
                                    ELSE Config_to_serializable(cfg)]
    /\ steps' = steps + 1
    /\ UNCHANGED <<cfg, yaml_path, fs, order, ext>>

NextConv == Construct \/ ToSerializable

SpecConv == InitConv /\ [][NextConv]_vars

(***************************************************************************)
(* Threads sharing one Config.  A thread runs a program of operations; the *)
(* interpreter switches threads between any two accesses of the shared     *)
(* dict, each of which (contains, getitem, setitem, delitem) is atomic.    *)
(* Config takes no lock of its own; the callers' lock is the one of the    *)
(* test programs.                                                          *)
(***************************************************************************)
NumThreads == 2    \* threads sharing the Config
Iterations == 2    \* operations, or locked read-then-write pairs, per thread

Threads == 1..NumThreads

N_counter == <<"c", "o", "u", "n", "t", "e", "r">>
K_counter == StrV(N_counter)

\* SafeAttributeAccess.__eq__, StringTemplate.__eq__ against a plain value
Eq(v, other) ==
    CASE IsSafeAttributeAccess(v) -> v.wrapped_object = other
      [] IsStringTemplate(v) -> IsStr(other) /\ v.raw_string = CharsOf(other)
      [] OTHER -> v = other

\* a __add__ that forgets its operand
SafeAttributeAccess_add_drops_operand(self, other) ==
    IF IsSafeAttributeAccess(self) /\ self.wrapped_object.t = "int"
    THEN Ok(self.wrapped_object)
    ELSE Raise(TypeError)

\* current + other: SafeAttributeAccess.__add__ on a wrapped int; None, a
\* StringTemplate or a Config plus an int is a TypeError
SafeAttributeAccess_add(self, other) ==
    IF IsSafeAttributeAccess(self) /\ self.wrapped_object.t = "int"
    THEN Ok(IntV(self.wrapped_object.n + other))
    ELSE Raise(TypeError)

\* one operation of a thread's program
TOp(op, key, arg) == [op |-> op, key |-> key, arg |-> arg]

\* a thread before its first operation
Start(prog) ==
    [prog |-> prog, i |-> 1, at |-> "start", tmp |-> None, cur |-> None,
     out |-> <<>>]

\* thread t writes keys of its own: config[f"thread_{t}_{j}"] = i
TKey(t, j) == StrV(<<"t">> \o NatToStr(t) \o <<"_">> \o NatToStr(j))
WriterProg(t) ==
    [i \in 1..Iterations |-> TOp("set", TKey(t, (i + 1) \div 2), IntV(i))]

\* with counter_lock: current = config.counter; config.counter = current + 1
RECURSIVE CounterProg(_)
CounterProg(n) ==
    IF n = 0 THEN <<>>
    ELSE <<TOp("acquire", None, None), TOp("get", K_counter, None),
           TOp("incr", K_counter, None), TOp("release", None, None)>>
           \o CounterProg(n - 1)

\* single operations on one key, one per thread
OpsOnKey ==
    {TOp("set", K_a, I_12), TOp("set", K_a, DictV(<<>>)),
     TOp("get", K_a, None), TOp("del", K_a, None)}
SharedDocs == {DictV(<<>>), DictV(<<Item(K_a, S_s)>>), DictV(<<Item(K_a, I_12)>>)}

Done(t) == thr[t].i > Len(thr[t].prog)
AllDone == \A t \in Threads : Done(t)
CurOp(t) == thr[t].prog[thr[t].i]

\* the thread after its current operation returned or raised: an exception
\* ends the thread and, inside `with counter_lock`, releases the lock
Returned(th, outcome) ==
    [th EXCEPT !.i = IF outcome.raised THEN Len(th.prog) + 1 ELSE th.i + 1,
               !.at = "start", !.tmp = None,
               !.out = Append(th.out, outcome)]

InitThreads ==
    /\ yaml_path = None
    /\ fs = InitFiles
    /\ order = <<>>
    /\ steps = 0
    /\ lock = None
    /\ heap = <<>>
    /\ bindings = <<>>
    /\ passes = <<>>
    /\ \/ /\ last = Op("Config", None, None, DictV(<<>>), "", FALSE, None)
          /\ thr = [t \in Threads |-> Start(WriterProg(t))]
       \/ /\ \E x \in SharedDocs :
                last = Op("Config", None, None, x, "", FALSE, None)
          /\ \E ops \in [Threads -> OpsOnKey] :
                thr = [t \in Threads |-> Start(<<ops[t]>>)]
       \/ /\ last = Op("Config", None, None,
                       DictV(<<Item(K_counter, IntV(0))>>), "", FALSE, None)
          /\ thr = [t \in Threads |-> Start(CounterProg(Iterations))]
    /\ cfg = Config(last.arg)

\* counter_lock.__enter__
Acquire(t) ==
    /\ ~Done(t)
    /\ CurOp(t).op = "acquire"
    /\ lock = None
    /\ lock' = IntV(t)
    /\ thr' = [thr EXCEPT ![t] = Returned(@, Ok(None))]
    /\ UNCHANGED <<cfg, yaml_path, fs, last, order, steps, heap, bindings, passes>>

\* counter_lock.__exit__
Release(t) ==
    /\ ~Done(t)
    /\ CurOp(t).op = "release"
    /\ lock' = None
    /\ thr' = [thr EXCEPT ![t] = Returned(@, Ok(None))]
    /\ UNCHANGED <<cfg, yaml_path, fs, last, order, steps, heap, bindings, passes>>

\* what _process_value returns when the thread saw the key absent (seen is
\* empty) or read its value (seen holds that entry)
ProcessSeen(seen, value, key) == Config_process_value(MkConfig(seen), value, key)

\* config[key] = value, up to the first access of the shared dict:
\* `key in self` for a number, nothing for other values
SetBegin(t) ==
    /\ ~Done(t)
    /\ CurOp(t).op \in {"set", "incr"}
    /\ thr[t].at = "start"
    /\ LET key == CurOp(t).key
           sum == SafeAttributeAccess_add(thr[t].cur, 1)
           value == IF CurOp(t).op = "set" THEN CurOp(t).arg ELSE sum.value
       IN  thr' = [thr EXCEPT ![t] =
              IF CurOp(t).op = "incr" /\ sum.raised THEN Returned(@, sum)
              ELSE IF key \in RESERVED
              THEN [@ EXCEPT !.at = "store", !.tmp = value]
              ELSE IF IsNumber(value) /\ DictContains(ItemsOf(cfg), key)
              THEN [@ EXCEPT !.at = "contains", !.tmp = value]
              ELSE [@ EXCEPT !.at = "store",
                             !.tmp = ProcessSeen(<<>>, value, key)]]
    /\ lock' = IF CurOp(t).op = "incr"
                  /\ SafeAttributeAccess_add(thr[t].cur, 1).raised
                  /\ lock = IntV(t)
               THEN None ELSE lock
    /\ UNCHANGED <<cfg, yaml_path, fs, last, order, steps, heap, bindings, passes>>

\* isinstance(self[key], StringTemplate): the key seen present is read
SetFetch(t) ==
    /\ ~Done(t)
    /\ thr[t].at = "contains"
    /\ LET key == CurOp(t).key
       IN  thr' = [thr EXCEPT ![t] =
              IF DictContains(ItemsOf(cfg), key)
              THEN [@ EXCEPT !.at = "store",
                             !.tmp = ProcessSeen(
                                 <<Item(key, DictGetItem(ItemsOf(cfg), key))>>,
                                 thr[t].tmp, key)]
              ELSE Returned(@, Raise(KeyError))]
    /\ lock' = IF ~DictContains(ItemsOf(cfg), CurOp(t).key) /\ lock = IntV(t)
               THEN None ELSE lock
    /\ UNCHANGED <<cfg, yaml_path, fs, last, order, steps, heap, bindings, passes>>

\* super().__setitem__(key, processed_value)
SetStore(t) ==
    /\ ~Done(t)
    /\ thr[t].at = "store"
    /\ cfg' = MkConfig(DictSetItem(ItemsOf(cfg), CurOp(t).key, thr[t].tmp))
    /\ thr' = [thr EXCEPT ![t] = Returned(@, Ok(None))]
    /\ UNCHANGED <<yaml_path, fs, last, order, steps, lock, heap, bindings, passes>>

\* current = config.name, up to dict.__contains__(self, key)
GetBegin(t) ==
    /\ ~Done(t)
    /\ CurOp(t).op = "get"
    /\ thr[t].at = "start"
    /\ LET key == CurOp(t).key
           absent == Config_getattribute(MkConfig(<<>>), None, CharsOf(key))
       IN  thr' = [thr EXCEPT ![t] =
              IF DictContains(ItemsOf(cfg), key)
              THEN [@ EXCEPT !.at = "found"]
              ELSE [Returned(@, absent) EXCEPT !.cur = absent.value]]
    /\ UNCHANGED <<cfg, yaml_path, fs, last, order, steps, lock, heap, bindings, passes>>

\* dict.__getitem__(self, key); a KeyError is swallowed by the bare except
GetFetch(t) ==
    /\ ~Done(t)
    /\ thr[t].at = "found"
    /\ LET key == CurOp(t).key
           seen == IF DictContains(ItemsOf(cfg), key)
                   THEN <<Item(key, DictGetItem(ItemsOf(cfg), key))>>
                   ELSE <<>>
           r == Config_getattribute(MkConfig(seen), None, CharsOf(key))
       IN  thr' = [thr EXCEPT ![t] = [Returned(@, r) EXCEPT !.cur = r.value]]
    /\ UNCHANGED <<cfg, yaml_path, fs, last, order, steps, lock, heap, bindings, passes>>

\* del config.name: __delattr__, whose `del self[key]` is one dict access
Del(t) ==
    /\ ~Done(t)
    /\ CurOp(t).op = "del"
    /\ LET r == Config_delattr(cfg, CharsOf(CurOp(t).key))
       IN  /\ cfg' = r.self
           /\ thr' = [thr EXCEPT ![t] =
                 Returned(@, IF r.raised THEN Raise(AttributeError) ELSE Ok(None))]
    /\ UNCHANGED <<yaml_path, fs, last, order, steps, lock, heap, bindings, passes>>

NextThreads ==
    \E t \in Threads :
        \/ Acquire(t)
        \/ Release(t)
        \/ SetBegin(t)
        \/ SetFetch(t)
        \/ SetStore(t)
        \/ GetBegin(t)
        \/ GetFetch(t)
        \/ Del(t)

SpecThreads == InitThreads /\ [][NextThreads]_vars

(***************************************************************************)
(* The coroutine programs of the tests: await config.async_set(k, v) and   *)
(* the like.  Config defines no such method, so each call is an attribute  *)
(* lookup through Config.__getattribute__ followed by a call of what the   *)
(* lookup returned.                                                        *)
(***************************************************************************)
N_async_get == <<"a", "s", "y", "n", "c", "_", "g", "e", "t">>
N_async_set == <<"a", "s", "y", "n", "c", "_", "s", "e", "t">>
N_async_update == <<"a", "s", "y", "n", "c", "_", "u", "p", "d", "a", "t", "e">>
N_async_del == <<"a", "s", "y", "n", "c", "_", "d", "e", "l">>
N_async_contains ==
    <<"a", "s", "y", "n", "c", "_", "c", "o", "n", "t", "a", "i", "n", "s">>

\* self.name(...), up to the call: only a method can be called; None, a
\* proxy, a template, a Config or a SafeList is not callable
CallAttr(self, self_yaml_path, name) ==
    LET f == Config_getattribute(self, self_yaml_path, name)
    IN  IF f.raised THEN f
        ELSE IF f.value.t = "method" THEN f
        ELSE Raise(TypeError)

\* await target.name(key, arg): the call raises before any coroutine exists,
\* unless the lookup finds a method
AsyncCall(tk, op, name, key, arg) ==
    /\ steps < MaxSteps
    /\ TargetOk(tk)
    /\ LET f == CallAttr(TargetOf(tk), None, name)
       IN  last' = Op(op, tk, key, arg, "", f.raised,
                      IF f.raised THEN None ELSE f.value)
    /\ steps' = steps + 1
    /\ UNCHANGED <<cfg, yaml_path, fs, order, ext>>

AsyncSet(tk, key, value) == AsyncCall(tk, "async_set", N_async_set, key, value)
AsyncGet(tk, key) == AsyncCall(tk, "async_get", N_async_get, key, None)
AsyncUpdate(tk, m) == AsyncCall(tk, "async_update", N_async_update, None, m)
AsyncDel(tk, key) == AsyncCall(tk, "async_del", N_async_del, key, None)
AsyncContains(tk, key) == AsyncCall(tk, "async_contains", N_async_contains, key, None)

AsyncKeys == {K_a, K_b}

NextAsync ==
    \/ \E tk \in Targets, key \in AsyncKeys, value \in ArgValues :
          AsyncSet(tk, key, value)
    \/ \E tk \in Targets, key \in AsyncKeys : AsyncGet(tk, key)
    \/ \E tk \in Targets, m \in Mappings : AsyncUpdate(tk, m)
    \/ \E tk \in Targets, key \in AsyncKeys : AsyncDel(tk, key)
    \/ \E tk \in Targets, key \in AsyncKeys : AsyncContains(tk, key)
    \/ \E tk \in Targets, key \in AsyncKeys, value \in ArgValues :
          SetItem(tk, key, value)
    \/ \E tk \in Targets, name \in {N_a, N_b} : DelAttr(tk, name)

SpecAsync == Init /\ [][NextAsync]_vars

(***************************************************************************)
(* Rendering the templates of a tree.  The caller keeps a binding map and  *)
(* hands it to render as keyword arguments; render works on a copy.        *)
(***************************************************************************)
MaxChain == 4      \* longest chain of bindings that name the next binding

\* one from_string(...).render(**context): the text, or a syntax error
ExpandPass(s, context) ==
    IF TemplateSyntaxError(s) THEN Raise(<<"TemplateSyntaxError">>)
    ELSE Ok(StrV(Expand(s, context)))

\* a render that keeps expanding for a fourth pass
render_passes_four(self, kwargs) ==
    LET context == kwargs
        p1 == ExpandPass(self.raw_string, context)
        p2 == ExpandPass(CharsOf(p1.value), context)
        p3 == ExpandPass(CharsOf(p2.value), context)
        p4 == ExpandPass(CharsOf(p3.value), context)
    IN  IF p1.raised \/ ~HasMarker(CharsOf(p1.value)) THEN <<p1>>
        ELSE IF p2.raised \/ ~HasMarker(CharsOf(p2.value)) THEN <<p1, p2>>
        ELSE IF p3.raised \/ ~HasMarker(CharsOf(p3.value)) THEN <<p1, p2, p3>>
        ELSE <<p1, p2, p3, p4>>

\* the expansion passes render performs, in order, each with its result
render_passes(self, kwargs) ==
    LET context == kwargs
        p1 == ExpandPass(self.raw_string, context)
        p2 == ExpandPass(CharsOf(p1.value), context)
        p3 == ExpandPass(CharsOf(p2.value), context)
    IN  IF p1.raised \/ ~HasMarker(CharsOf(p1.value)) THEN <<p1>>
        ELSE IF p2.raised \/ ~HasMarker(CharsOf(p2.value)) THEN <<p1, p2>>
        ELSE <<p1, p2, p3>>

\* a render that stores its result as the template's source
StringTemplate_render_caches(self, kwargs) ==
    [self |-> IF render(self, kwargs).raised THEN self
              ELSE StringTemplate(render(self, kwargs).value),
     kwargs |-> kwargs,
     passes |-> render_passes(self, kwargs),
     result |-> render(self, kwargs)]

\* self.render(**kwargs) with all it touches: the template object and the
\* caller's map after the call, the passes performed, the value returned
StringTemplate_render(self, kwargs) ==
    [self |-> self,
     kwargs |-> kwargs,
     passes |-> render_passes(self, kwargs),
     result |-> render(self, kwargs)]

\* names and markers
Letters == <<"a", "b", "c", "d", "e", "f">>
Name(i) == <<Letters[i]>>
Marker(name) == <<"{", "{">> \o name \o <<"}", "}">>

\* name 1 is bound to the marker of name 2, ..., name n to plain text
ChainBindings(n) ==
    [m \in {Name(i) : i \in 1..n} |->
        LET i == CHOOSE j \in 1..n : Name(j) = m
        IN  IF i < n THEN Marker(Name(i + 1)) ELSE <<"x">>]

B_self == [m \in {Name(1)} |-> Marker(Name(1))]
B_cycle == [m \in {Name(1), Name(2)} |->
               IF m = Name(1) THEN Marker(Name(2)) ELSE Marker(Name(1))]
B_unclosed == [m \in {Name(1)} |-> <<"{", "{">>]
B_brace == [m \in {Name(1)} |-> <<"{">>]

BindingMaps ==
    {<<>>, B_self, B_cycle, B_unclosed, B_brace}
      \cup {ChainBindings(n) : n \in 1..MaxChain}

TemplateSources ==
    {StrV(<<"x">>),
     StrV(Marker(Name(1))),
     StrV(<<"x", "{", "{", " ", "a", " ", "}", "}", "{", "{", "u", "}", "}">>),
     StrV(<<"{", "{", "a">>),
     StrV(Marker(Name(1)) \o Marker(Name(1)) \o <<"b", "}", "}">>)}

InitRender ==
    /\ \E x \in TemplateSources :
          /\ last = Op("Config", None, None, DictV(<<Item(K_a, x)>>), "", FALSE, None)
          /\ cfg = Config(DictV(<<Item(K_a, x)>>))
    /\ bindings \in BindingMaps
    /\ passes = <<>>
    /\ yaml_path = None
    /\ fs = InitFiles
    /\ order = DictKeys(ItemsOf(cfg))
    /\ steps = 0
    /\ thr = <<>>
    /\ lock = None
    /\ heap = <<>>

\* the caller changes its own binding map
Bind(b) ==
    /\ steps < MaxSteps
    /\ b # bindings
    /\ bindings' = b
    /\ last' = Op("bind", None, None, None, "", FALSE, None)
    /\ steps' = steps + 1
    /\ UNCHANGED <<cfg, yaml_path, fs, order, thr, lock, heap, passes>>

\* cfg.key.render(**bindings)
Render(key) ==
    /\ steps < MaxSteps
    /\ DictContains(ItemsOf(cfg), key)
    /\ IsStringTemplate(DictGetItem(ItemsOf(cfg), key))
    /\ LET r == StringTemplate_render(DictGetItem(ItemsOf(cfg), key), bindings)
       IN  /\ cfg' = MkConfig(DictSetItem(ItemsOf(cfg), key, r.self))
           /\ bindings' = r.kwargs
           /\ passes' = r.passes
           /\ last' = Op("render", None, key, None, "", r.result.raised,
                         r.result.value)
    /\ steps' = steps + 1
    /\ UNCHANGED <<yaml_path, fs, order, thr, lock, heap>>

NextRender ==
    \/ \E b \in BindingMaps : Bind(b)
    \/ \E key \in {K_a} : Render(key)

SpecRender == InitRender /\ [][NextRender]_vars

(***************************************************************************)
(* Config objects with identity.  The heap holds the Config objects made   *)
(* so far; a Config stored as a value is a reference to its object, so one *)
(* object can be stored in several places.  Each object carries its        *)
(* _parent and _parent_key attributes.  The operations are those of class  *)
(* Config above, threading the heap through.                               *)
(***************************************************************************)
MaxHeap == 3       \* Config objects alive in a behaviour

Ref(id) == [t |-> "ref", id |-> id]
IsRef(v) == v.t = "ref"
HObj(items, parent, parent_key) ==
    [items |-> items, parent |-> parent, parent_key |-> parent_key]

\* bool(dict_value) and dict(dict_value) when dict_value may be a Config
HTruthy(h, v) == IF IsRef(v) THEN Len(h[v.id].items) > 0 ELSE Truthy(v)
HDictInit(h, v) == IF IsRef(v) THEN h[v.id].items ELSE DictInit(v)

RECURSIVE H_Config(_, _, _, _)
RECURSIVE H_convert_to_config(_, _, _, _)
RECURSIVE H_convert_value(_, _, _, _)
RECURSIVE H_convert_items(_, _, _, _, _)
RECURSIVE H_process_value(_, _, _, _)
RECURSIVE H_process_items(_, _, _, _, _)
RECURSIVE H_setitem(_, _, _, _)

\* [self._convert_value(item) for item in value]
H_convert_items(h, self, elems, i, acc) ==
    IF i > Len(elems) THEN [h |-> h, v |-> acc]
    ELSE LET r == H_convert_value(h, self, elems[i], None)
         IN  H_convert_items(r.h, self, elems, i + 1, Append(acc, r.v))

\* Config._convert_value(value, key): the heap after it and the value
H_convert_value(h, self, value, key) ==
    CASE value.t = "dict" -> H_Config(h, value, Ref(self), key)
      [] IsList(value) ->
            LET r == H_convert_items(h, self, ElemsOf(value), 1, <<>>)
            IN  [h |-> r.h, v |-> MkSafeList(r.v)]
      [] value = None -> [h |-> h, v |-> None]
      [] IsNumber(value) -> [h |-> h, v |-> SafeAttributeAccess(value)]
      [] IsStr(value) -> [h |-> h, v |-> StringTemplate(value)]
      [] IsRef(value) ->
            [h |-> [h EXCEPT ![value.id].parent = Ref(self),
                             ![value.id].parent_key = key],
             v |-> value]
      [] OTHER -> [h |-> h, v |-> SafeAttributeAccess(value)]

\* [self._process_value(item) for item in value]
H_process_items(h, self, elems, i, acc) ==
    IF i > Len(elems) THEN [h |-> h, v |-> acc]
    ELSE LET r == H_process_value(h, self, elems[i], None)
         IN  H_process_items(r.h, self, elems, i + 1, Append(acc, r.v))

\* Config._process_value(value, key): the heap after it and the value; a
\* Config is returned as it is
H_process_value(h, self, value, key) ==
    CASE value.t = "dict" -> H_Config(h, value, Ref(self), key)
      [] IsList(value) /\ ~IsSafeList(value) ->
            LET r == H_process_items(h, self, ElemsOf(value), 1, <<>>)
            IN  [h |-> r.h, v |-> MkSafeList(r.v)]
      [] IsStr(value) /\ ~IsStringTemplate(value) ->
            [h |-> h, v |-> StringTemplate(value)]
      [] /\ IsNumber(value)
         /\ key # None
         /\ DictContains(h[self].items, key)
         /\ IsStringTemplate(DictGetItem(h[self].items, key)) ->
            [h |-> h, v |-> StringTemplate(StrV(str(value)))]
      [] value = None -> [h |-> h, v |-> None]
      [] IsNumber(value) -> [h |-> h, v |-> SafeAttributeAccess(value)]
      [] OTHER -> [h |-> h, v |-> value]

\* Config.__setitem__(key, value): the heap after it
H_setitem(h, self, key, value) ==
    IF key \in RESERVED
    THEN [h EXCEPT ![self].items = DictSetItem(@, key, value)]
    ELSE LET r == H_process_value(h, self, value, key)
         IN  [r.h EXCEPT ![self].items = DictSetItem(@, key, r.v)]

\* Config.__setattr__(key, value): the heap after it
H_setattr(h, self, key, value) ==
    IF key = <<"_", "p", "a", "r", "e", "n", "t">>
    THEN [h EXCEPT ![self].parent = value]
    ELSE IF key = <<"_", "p", "a", "r", "e", "n", "t", "_", "k", "e", "y">>
    THEN [h EXCEPT ![self].parent_key = value]
    ELSE IF SetsInstanceAttribute(key) THEN h
    ELSE H_setitem(h, self, StrV(key), value)

\* Config._convert_to_config(): over a snapshot of the entries
H_convert_to_config(h, self, snapshot, i) ==
    IF i > Len(snapshot) THEN h
    ELSE LET r == H_convert_value(h, self, snapshot[i].v, snapshot[i].k)
         IN  H_convert_to_config(H_setitem(r.h, self, snapshot[i].k, r.v),
                                 self, snapshot, i + 1)

\* Config(dict_value, parent=parent, parent_key=parent_key): the heap with
\* the new object and the objects made for its nested mappings
H_Config(h, dict_value, parent, parent_key) ==
    LET dv == IF HTruthy(h, dict_value) THEN dict_value ELSE DictV(<<>>)
        id == Len(h) + 1
        h1 == Append(h, HObj(HDictInit(h, dv), parent, parent_key))
    IN  [h |-> H_convert_to_config(h1, id, h1[id].items, 1), v |-> Ref(id)]

\* the objects made so far, and the values the program stores
Ids == 1..MaxHeap
Alive(v) == IsRef(v) => v.id <= Len(heap)
AliveDoc(x) == Alive(x) /\ (x.t = "dict" => \A i \in 1..Len(ItemsOf(x)) : Alive(ItemsOf(x)[i].v))
TreeKeys == {K_a, K_b}
TreeNames == {N_a, N_b}
TreePlain == {I_12, DictV(<<>>), DictV(<<Item(K_b, DictV(<<>>))>>)}
TreeValues == TreePlain \cup {Ref(c) : c \in Ids}
TreeDocs ==
    {None, DictV(<<>>), DictV(<<Item(K_a, DictV(<<>>))>>)}
      \cup {Ref(c) : c \in Ids}
      \cup {DictV(<<Item(k, Ref(c))>>) : k \in TreeKeys, c \in Ids}
      \cup {DictV(<<Item(K_a, Ref(c)), Item(K_b, I_12)>>) : c \in Ids}

InitTree ==
    /\ \E x \in {DictV(<<>>), DictV(<<Item(K_a, DictV(<<>>))>>)} :
          /\ heap = H_Config(<<>>, x, None, None).h
          /\ last = Op("Config", None, None, x, "", FALSE, Ref(1))
    /\ cfg = MkConfig(<<>>)
    /\ yaml_path = None
    /\ fs = InitFiles
    /\ order = <<>>
    /\ steps = 0
    /\ thr = <<>>
    /\ lock = None
    /\ bindings = <<>>
    /\ passes = <<>>

\* c = Config(x)
NewConfig(x) ==
    /\ steps < MaxSteps
    /\ AliveDoc(x)
    /\ LET r == H_Config(heap, x, None, None)
       IN  /\ Len(r.h) <= MaxHeap
           /\ heap' = r.h
           /\ last' = Op("Config", None, None, x, "", FALSE, r.v)
    /\ steps' = steps + 1
    /\ UNCHANGED <<cfg, yaml_path, fs, order, thr, lock, bindings, passes>>

\* p[key] = value
HeapSetItem(p, key, value) ==
    /\ steps < MaxSteps
    /\ p <= Len(heap)
    /\ Alive(value)
    /\ value # Ref(p)           \* a node is not stored into itself
    /\ Len(H_setitem(heap, p, key, value)) <= MaxHeap
    /\ heap' = H_setitem(heap, p, key, value)
    /\ last' = Op("setitem", Ref(p), key, value, "", FALSE, None)
    /\ steps' = steps + 1
    /\ UNCHANGED <<cfg, yaml_path, fs, order, thr, lock, bindings, passes>>

\* p.name = value
HeapSetAttr(p, name, value) ==
    /\ steps < MaxSteps
    /\ p <= Len(heap)
    /\ Alive(value)
    /\ value # Ref(p)
    /\ Len(H_setattr(heap, p, name, value)) <= MaxHeap
    /\ heap' = H_setattr(heap, p, name, value)
    /\ last' = Op("setattr", Ref(p), StrV(name), value, "", FALSE, None)
    /\ steps' = steps + 1
    /\ UNCHANGED <<cfg, yaml_path, fs, order, thr, lock, bindings, passes>>

NextTree ==
    \/ \E x \in TreeDocs : NewConfig(x)
    \/ \E p \in Ids, key \in TreeKeys, value \in TreeValues :
          HeapSetItem(p, key, value)
    \/ \E p \in Ids, name \in TreeNames, value \in TreeValues :
          HeapSetAttr(p, name, value)

SpecTree == InitTree /\ [][NextTree]_vars

(***************************************************************************)
(* Values that are wrapped already, given back to the constructor, to a    *)
(* set and to the SafeList mutators.                                       *)
(***************************************************************************)
WrapDocs ==
    {DictV(<<Item(K_a, I_12), Item(K_b, ListV(<<S_s>>))>>),
     DictV(<<Item(K_a, DictV(<<Item(K_b, S_s)>>)), Item(K_b, ListV(<<>>))>>),
     DictV(<<Item(K_a, None), Item(K_b, ListV(<<DictV(<<Item(K_a, S_t)>>)>>))>>),
     DictV(<<Item(K_b, ListV(<<BoolV(TRUE)>>))>>)}

\* instances of the four wrapper classes
WrappedValues ==
    {SafeAttributeAccess(I_12), SafeAttributeAccess(BoolV(TRUE)),
     StringTemplate(S_s), MkSafeList(<<StringTemplate(S_t)>>),
     Config(DictV(<<Item(K_b, S_s)>>))}

\* mappings of wrapped values given to the constructor besides the tree itself
WrappedMappings ==
    {DictV(<<Item(K_a, SafeAttributeAccess(I_12)),
             Item(K_b, MkSafeList(<<StringTemplate(S_s)>>))>>),
     Config(DictV(<<Item(K_a, DictV(<<Item(K_b, S_s)>>)), Item(K_b, ListV(<<>>))>>))}

InitWrap ==
    /\ NoExt
    /\ \E x \in WrapDocs :
          /\ cfg = Config(x)
          /\ last = Op("Config", None, None, x, "", FALSE, None)
    /\ yaml_path = None
    /\ fs = InitFiles
    /\ order = DictKeys(ItemsOf(cfg))
    /\ steps = 0

\* cfg = Config(x) for a mapping x of wrapped values
Reconstruct(x) ==
    /\ steps < MaxSteps
    /\ cfg' = Config(x)
    /\ last' = Op("Config", None, None, x, "", FALSE, None)
    /\ order' = DictKeys(ItemsOf(cfg'))
    /\ steps' = steps + 1
    /\ UNCHANGED <<yaml_path, fs, ext>>

NextWrap ==
    \/ Reconstruct(cfg)
    \/ \E x \in WrappedMappings : Reconstruct(x)
    \/ \E tk \in Targets, key \in {K_a, K_b}, value \in WrappedValues :
          SetItem(tk, key, value)
    \/ \E name \in {N_a}, value \in WrappedValues : SetAttr(None, name, value)
    \/ \E lk \in ListKeys, value \in WrappedValues : ListAppend(lk, value)
    \/ \E lk \in ListKeys, index \in {0, 1}, value \in WrappedValues :
          ListInsert(lk, index, value)
    \/ \E lk \in ListKeys, value \in WrappedValues :
          ListExtend(lk, <<value, SafeAttributeAccess(I_12)>>)

SpecWrap == InitWrap /\ [][NextWrap]_vars

(***************************************************************************)
(* The claims.                                                             *)
(***************************************************************************)
\* a value conversion may store: Config, SafeList, StringTemplate,
\* SafeAttributeAccess or None, and the same for everything inside it
RECURSIVE Wrapped(_)
Wrapped(v) ==
    CASE IsConfig(v) -> \A i \in 1..Len(ItemsOf(v)) : Wrapped(ItemsOf(v)[i].v)
      [] IsSafeList(v) -> \A i \in 1..Len(ElemsOf(v)) : Wrapped(ElemsOf(v)[i])
      [] IsStringTemplate(v) -> TRUE
      [] IsSafeAttributeAccess(v) -> TRUE
      [] v = None -> TRUE
      [] OTHER -> FALSE

\* C1: in every state reached by attribute set, item set, update,
\* setdefault, delete and the SafeList mutators with plain values, every
\* value stored in a Config or SafeList reachable from the root is a Config,
\* SafeList, StringTemplate, SafeAttributeAccess or None.
C1_EveryStoredValueWrapped == Wrapped(cfg)

\* every mapping key, at every level of a plain value, is a str that does
\* not start with "_"
RECURSIVE PlainKeys(_)
PlainKeys(x) ==
    CASE IsDict(x) -> \A i \in 1..Len(ItemsOf(x)) :
                          /\ IsStr(ItemsOf(x)[i].k)
                          /\ ~StartsWith(CharsOf(ItemsOf(x)[i].k), <<"_">>)
                          /\ PlainKeys(ItemsOf(x)[i].v)
      [] IsList(x) -> \A i \in 1..Len(ElemsOf(x)) : PlainKeys(ElemsOf(x)[i])
      [] OTHER -> TRUE

\* C2 as stated: for every plain mapping x, with any keys,
\* Config(x)._to_serializable() returns x.
C2_SerializeInvertsConvert ==
    last.op = "_to_serializable" => ~last.raised /\ last.ret = last.arg

\* C2 as amended: for every plain mapping x whose keys, at every level, are
\* strings not starting with "_", Config(x)._to_serializable() returns x,
\* with the same keys in the same order and the same primitive values.
C2_SerializeInvertsConvertPlainKeys ==
    (last.op = "_to_serializable" /\ PlainKeys(last.arg))
        => ~last.raised /\ last.ret = last.arg

\* a nested input with two keys whose serialization came back
C2_Witness ==
    /\ last.op = "_to_serializable"
    /\ PlainKeys(last.arg)
    /\ Len(ItemsOf(last.arg)) = 2
    /\ \E i \in 1..2 : IsDict(ItemsOf(last.arg)[i].v)
                         /\ Len(ItemsOf(ItemsOf(last.arg)[i].v)) > 0
    /\ \E i \in 1..2 : IsList(ItemsOf(last.arg)[i].v)
    /\ last.ret = last.arg

\* C3: reading a dot-path whose first segment is not a key of the tree
\* never raises, at any step, and ends in null.
C3_AbsentPathYieldsNull ==
    (last.op = "read" /\ ~DictContains(ItemsOf(cfg), last.key))
        => ~last.raised /\ last.ret = None

\* T[k] = v for each entry of m, in m's order
RECURSIVE SetEach(_, _, _)
SetEach(self, m, i) ==
    IF i > Len(m) THEN self
    ELSE SetEach(Config_setitem(self, m[i].k, m[i].v), m, i + 1)

\* C4: the state after T.update(m) is the state after T[k] = v for each
\* entry (k, v) of m in m's order.
C4_UpdateIsSetEach ==
    [][last'.op = "update"
         => /\ ~last'.raised
            /\ cfg' = WithTarget(last'.target,
                                 SetEach(TargetOf(last'.target),
                                         ItemsOf(last'.arg), 1))]_vars

\* the last step set a key of the mapping of its target
IsKeySet(op) ==
    \/ op.op = "setitem"
    \/ op.op = "setattr" /\ ~SetsInstanceAttribute(CharsOf(op.key))

\* C5: the keys of a Config iterate in the order of their insertion since
\* their last deletion: a set on an existing key changes only that key's
\* value and moves no key, a set on a new key places it last.
C5_KeyOrderIsInsertionOrder ==
    [][/\ DictKeys(ItemsOf(cfg')) = order'
       /\ IsKeySet(last')
            => LET before == ItemsOf(TargetOf(last'.target))
                   after == ItemsOf(IF last'.target = None THEN cfg'
                                    ELSE DictGetItem(ItemsOf(cfg'), last'.target))
               IN  /\ DictKeys(after) =
                        IF DictContains(before, last'.key) THEN DictKeys(before)
                        ELSE Append(DictKeys(before), last'.key)
                   /\ \A i \in 1..Len(before) :
                         before[i].k # last'.key => after[i] = before[i]]_vars

\* a key set again after its deletion now comes last, behind an older key
C5_Witness ==
    /\ steps = 2
    /\ last.op \in {"setitem", "setattr"}
    /\ last.target = None
    /\ DictKeys(ItemsOf(cfg)) = <<K_b, K_a>>
    /\ last.key = K_a

\* C6: deleting a key by attribute or by item never raises; an absent key
\* leaves the tree unchanged, a present key is removed and nothing else
\* changes; a later read of the key yields null.
C6_DeleteNeverRaises ==
    [][last'.op \in {"delattr", "delitem"}
         => LET self == TargetOf(last'.target)
                after == IF last'.target = None THEN cfg'
                         ELSE DictGetItem(ItemsOf(cfg'), last'.target)
            IN  /\ ~last'.raised
                /\ ~DictContains(ItemsOf(self), last'.key) => cfg' = cfg
                /\ DictContains(ItemsOf(self), last'.key)
                     => ItemsOf(after) =
                          SelectSeq(ItemsOf(self), LAMBDA e : e.k # last'.key)
                /\ GetAttr(after, None, CharsOf(last'.key)) = Ok(None)]_vars

\* C7: a key holding a StringTemplate, overwritten by attribute set or item
\* set with a number n, holds a StringTemplate of str(n): render returns
\* str(n) with any bindings and serialization emits the string str(n).
C7_NumberOverTemplateStaysTemplate ==
    [][(/\ last'.op \in {"setitem", "setattr"}
        /\ last'.arg.t = "int"
        /\ DictContains(ItemsOf(TargetOf(last'.target)), last'.key)
        /\ IsStringTemplate(DictGetItem(ItemsOf(TargetOf(last'.target)),
                                        last'.key)))
         => LET after == IF last'.target = None THEN cfg'
                         ELSE DictGetItem(ItemsOf(cfg'), last'.target)
                stored == DictGetItem(ItemsOf(after), last'.key)
                emitted == ItemsOf(Config_to_serializable(after))
            IN  /\ stored = StringTemplate(StrV(str(last'.arg)))
                /\ \A b \in Bindings : render(stored, b) = Ok(StrV(str(last'.arg)))
                /\ DictContains(emitted, last'.key)
                /\ DictGetItem(emitted, last'.key) = StrV(str(last'.arg))]_vars

\* the file load read, and whether it yields no document
LoadedPath == abspath(CharsOf(last.key))
Unparsed(f) == f.kind \in {"absent", "dir", "unreadable", "malformed"}

\* C8: load never raises, whatever the location holds; it returns a Config
\* bound to the absolute form of the location, empty when the location is
\* absent or does not parse.
C8_LoadNeverRaises ==
    last.op = "load"
        => /\ ~last.raised
           /\ IsConfig(cfg)
           /\ yaml_path = StrV(LoadedPath)
           /\ Unparsed(fs[LoadedPath]) => cfg = MkConfig(<<>>)

\* a relative location holding a well-formed sequence was loaded
C8_Witness ==
    /\ last.op = "load"
    /\ steps > 0
    /\ fs[LoadedPath].kind = "doc"
    /\ IsList(fs[LoadedPath].data)
    /\ IsConfig(cfg)

\* the object the last dump was given, its bound and its effective location
DumpedNode == DumpNode(last.target)
DumpedBound == DumpNodePath(last.target)
DumpedLoc == IF Truthy(last.key) THEN last.key ELSE DumpedBound

\* C9: dump raises when the node is no Config and when there is neither an
\* explicit nor a bound location; otherwise it never raises and returns
\* true when the write succeeded, at the explicit location if one is given,
\* and false when creating the directory, serializing or writing failed.
C9_DumpOutcomes ==
    last.op = "dump"
        => /\ ~IsConfig(DumpedNode) => last.raised
           /\ (IsConfig(DumpedNode) /\ ~Truthy(last.key) /\ ~Truthy(DumpedBound))
                => last.raised
           /\ (IsConfig(DumpedNode) /\ Truthy(DumpedLoc))
                => /\ ~last.raised
                   /\ last.ret \in {BoolV(TRUE), BoolV(FALSE)}
                   /\ last.ret = BoolV(TRUE)
                        => /\ ~SerializeRaises(DumpedNode)
                           /\ exists(fs, dirname(abspath(CharsOf(DumpedLoc))))
                           /\ fs[abspath(CharsOf(DumpedLoc))] =
                                Document(Config_to_serializable(DumpedNode))
                   /\ (\/ SerializeRaises(DumpedNode)
                       \/ last.env \in {"open fails", "yaml.dump fails"}
                       \/ ~exists(fs, dirname(abspath(CharsOf(DumpedLoc)))))
                        => last.ret = BoolV(FALSE)

\* a dump to an explicit location succeeded on a Config bound elsewhere
C9_Witness ==
    /\ last.op = "dump"
    /\ last.target = None
    /\ Truthy(last.key)
    /\ Truthy(yaml_path)
    /\ abspath(CharsOf(last.key)) # abspath(CharsOf(yaml_path))
    /\ last.ret = BoolV(TRUE)

\* C10: after a successful dump of a tree reached by sets and deletes from
\* a loaded document, loading the dumped location yields a tree whose
\* serialized data equals the serialized data of the dumped tree.
C10_DumpLoadRoundTrip ==
    (last.op = "dump" /\ ~last.raised /\ last.ret = BoolV(TRUE))
        => LET r == load(fs, CharsOf(DumpedLoc))
           IN  /\ ~r.raised
               /\ ~SerializeRaises(r.config)
               /\ Config_to_serializable(r.config) =
                    Config_to_serializable(DumpedNode)

\* a loaded tree with a nested mapping was edited and dumped with success
C10_Witness ==
    /\ last.op = "dump"
    /\ last.ret = BoolV(TRUE)
    /\ steps = 2
    /\ last.target = None
    /\ \E i \in 1..Len(ItemsOf(cfg)) :
          /\ IsConfig(ItemsOf(cfg)[i].v)
          /\ Len(ItemsOf(ItemsOf(cfg)[i].v)) > 1
    /\ Len(ItemsOf(Config_to_serializable(cfg))) > 1

\* the keys a thread's program sets, and the value it sets a key to last
KeysSetBy(t) ==
    {thr[t].prog[i].key : i \in {j \in DOMAIN thr[t].prog :
                                   thr[t].prog[j].op = "set"}}
LastSetBy(t, key) ==
    LET I == {i \in DOMAIN thr[t].prog : thr[t].prog[i].key = key}
    IN  thr[t].prog[CHOOSE i \in I : \A j \in I : j <= i].arg

\* every thread only sets keys, and no two threads set the same key
DisjointWriters ==
    /\ \A t \in Threads : \A i \in DOMAIN thr[t].prog : thr[t].prog[i].op = "set"
    /\ \A t, u \in Threads : t # u => KeysSetBy(t) \cap KeysSetBy(u) = {}

\* C11: when the threads set disjoint keys of one shared Config, then after
\* all of them finished, in every interleaving, no set raised, every written
\* key is present and reads back equal to the last value its thread wrote,
\* and the Config holds no other key than those and its initial ones.
C11_NoLostWrites ==
    (thr # <<>> /\ DisjointWriters /\ AllDone)
        => /\ \A t \in Threads :
                 /\ \A i \in DOMAIN thr[t].out : ~thr[t].out[i].raised
                 /\ \A key \in KeysSetBy(t) :
                       /\ DictContains(ItemsOf(cfg), key)
                       /\ Eq(DictGetItem(ItemsOf(cfg), key), LastSetBy(t, key))
           /\ {ItemsOf(cfg)[i].k : i \in DOMAIN ItemsOf(cfg)} =
                 UNION {KeysSetBy(t) : t \in Threads}
                   \cup {ItemsOf(Config(last.arg))[i].k :
                           i \in DOMAIN ItemsOf(Config(last.arg))}

\* all writers finished, the second thread having stored its key first
C11_Witness ==
    /\ thr # <<>>
    /\ DisjointWriters
    /\ AllDone
    /\ Len(ItemsOf(cfg)) >= 2
    /\ ItemsOf(cfg)[1].k \in KeysSetBy(2)
    /\ ItemsOf(cfg)[2].k \in KeysSetBy(1)

\* every thread performs one operation, all on the same key
SameKeyOps ==
    /\ \A t \in Threads : Len(thr[t].prog) = 1
                            /\ thr[t].prog[1].op \in {"set", "get", "del"}
    /\ \A t, u \in Threads : thr[t].prog[1].key = thr[u].prog[1].key

\* one operation performed alone: the Config after it and its outcome
SerialOp(self, op) ==
    CASE op.op = "set" ->
            [self |-> Config_setitem(self, op.key, op.arg), out |-> Ok(None)]
      [] op.op = "get" ->
            [self |-> self,
             out |-> Config_getattribute(self, None, CharsOf(op.key))]
      [] op.op = "del" ->
            [self |-> Config_delattr(self, CharsOf(op.key)).self,
             out |-> IF Config_delattr(self, CharsOf(op.key)).raised
                     THEN Raise(AttributeError) ELSE Ok(None)]

\* the threads' operations performed one after the other, in the order perm
RECURSIVE SerialRun(_, _, _, _)
SerialRun(self, outs, perm, i) ==
    IF i > Len(perm) THEN [self |-> self, outs |-> outs]
    ELSE LET r == SerialOp(self, thr[perm[i]].prog[1])
         IN  SerialRun(r.self, [outs EXCEPT ![perm[i]] = <<r.out>>], perm, i + 1)

SerialOrders ==
    {perm \in [Threads -> Threads] : \A i, j \in Threads : perm[i] = perm[j] => i = j}

\* C12: single-key set, get and delete are atomic: when threads perform one
\* such operation each on the same key, no operation raises, and the results
\* and the final Config are those of the operations performed one after the
\* other in some order.
C12_SingleKeyOpsAtomic ==
    (thr # <<>> /\ SameKeyOps /\ AllDone)
        => /\ \A t \in Threads : \A i \in DOMAIN thr[t].out : ~thr[t].out[i].raised
           /\ \E perm \in SerialOrders :
                 SerialRun(Config(last.arg), [t \in Threads |-> <<>>], perm, 1)
                   = [self |-> cfg, outs |-> [t \in Threads |-> thr[t].out]]

\* every thread runs the locked read-then-write pairs on the counter
CounterRun == \A t \in Threads : thr[t].prog = CounterProg(Iterations)

\* C13: with every read-then-write pair of the counter under one shared
\* lock, starting from 0, the counter is a SafeAttributeAccess of an int in
\* every state, no operation raises, and after all threads finished it holds
\* threads x iterations.
C13_LockedCounterExact ==
    (thr # <<>> /\ CounterRun)
        => /\ DictContains(ItemsOf(cfg), K_counter)
           /\ IsSafeAttributeAccess(DictGetItem(ItemsOf(cfg), K_counter))
           /\ DictGetItem(ItemsOf(cfg), K_counter).wrapped_object.t = "int"
           /\ \A t \in Threads : \A i \in DOMAIN thr[t].out : ~thr[t].out[i].raised
           /\ AllDone => DictGetItem(ItemsOf(cfg), K_counter)
                           = SafeAttributeAccess(IntV(NumThreads * Iterations))

\* all increments done, the second thread having taken the lock last
C13_Witness ==
    /\ thr # <<>>
    /\ CounterRun
    /\ AllDone
    /\ thr[2].cur = SafeAttributeAccess(IntV(NumThreads * Iterations - 1))
    /\ DictGetItem(ItemsOf(cfg), K_counter).wrapped_object.n > 1

\* the target of the last operation, after it
TargetAfter ==
    IF last'.target = None THEN cfg' ELSE DictGetItem(ItemsOf(cfg'), last'.target)

\* C14: each asynchronous operation, awaited, does not raise and has the
\* effect and the result of its synchronous counterpart: async_set stores
\* as item set does, async_get returns what a read returns, async_update
\* sets every entry, async_del removes the key so that a read yields null,
\* async_contains tells whether the key is present.
C14_AsyncMatchesSync ==
    [][/\ last'.op \in {"async_set", "async_get", "async_update", "async_del",
                        "async_contains"} => ~last'.raised
       /\ last'.op = "async_set"
            => TargetAfter = Config_setitem(TargetOf(last'.target),
                                            last'.key, last'.arg)
       /\ last'.op = "async_get"
            => Ok(last'.ret) = Config_getattribute(TargetOf(last'.target), None,
                                                   CharsOf(last'.key))
       /\ last'.op = "async_update"
            => TargetAfter = SetEach(TargetOf(last'.target), ItemsOf(last'.arg), 1)
       /\ last'.op = "async_del"
            => /\ TargetAfter = Config_delattr(TargetOf(last'.target),
                                               CharsOf(last'.key)).self
               /\ Config_getattribute(TargetAfter, None, CharsOf(last'.key))
                    = Ok(None)
       /\ last'.op = "async_contains"
            => last'.ret = BoolV(DictContains(ItemsOf(TargetOf(last'.target)),
                                              last'.key))]_vars

\* C16: when a data key has the name of an enumeration operation, reading
\* the attribute yields the data value, and the operation is still callable
\* as a method: update and setdefault called on the Config do not raise.
C16_DataKeyWinsMethodCallable ==
    [][/\ (/\ last'.op = "read"
           /\ Len(ElemsOf(last'.arg)) = 1
           /\ CharsOf(last'.key) \in DICT_METHODS
           /\ DictContains(ItemsOf(cfg), last'.key))
            => /\ ~last'.raised
               /\ last'.ret = DictGetItem(ItemsOf(cfg), last'.key)
       /\ last'.op \in {"update", "setdefault"} => ~last'.raised]_vars

\* no bookkeeping name is a key of the Config or of a Config inside it
RECURSIVE NoBookkeepingKeys(_)
NoBookkeepingKeys(v) ==
    CASE IsDict(v) -> \A i \in 1..Len(ItemsOf(v)) :
                         /\ ItemsOf(v)[i].k \notin RESERVED
                         /\ NoBookkeepingKeys(ItemsOf(v)[i].v)
      [] IsList(v) -> \A i \in 1..Len(ElemsOf(v)) : NoBookkeepingKeys(ElemsOf(v)[i])
      [] OTHER -> TRUE

\* C19: after construction, attribute set and item set with any key names,
\* no bookkeeping name is among the data keys of a Config or in the output
\* of _to_serializable, and every other key the caller stored in the root
\* is in that output.
C19_BookkeepingNeverData ==
    /\ NoBookkeepingKeys(cfg)
    /\ ~SerializeRaises(cfg)
         => /\ NoBookkeepingKeys(Config_to_serializable(cfg))
            /\ \A i \in 1..Len(order) :
                  order[i] \notin RESERVED
                    => DictContains(ItemsOf(Config_to_serializable(cfg)), order[i])

\* the template the last render was called on, and its source
Rendered == DictGetItem(ItemsOf(cfg), last.key)
RenderedSource == Rendered.raw_string

\* the names the markers of s refer to
RECURSIVE Refs(_)
Refs(s) ==
    IF Len(s) < 2 THEN {}
    ELSE IF s[1] = "{" /\ s[2] = "{"
         THEN IF CloseAt(s, 3) = 0 THEN {}
              ELSE {StripBlanks(SubSeq(s, 3, CloseAt(s, 3) - 1))}
                     \cup Refs(SubSeq(s, CloseAt(s, 3) + 2, Len(s)))
         ELSE Refs(Tail(s))

\* the names reached from the names S through at most k bindings
RECURSIVE ReachK(_, _, _)
ReachK(S, b, k) ==
    IF k = 0 THEN S
    ELSE ReachK(S \cup UNION {Refs(b[n]) : n \in S \cap DOMAIN b}, b, k - 1)

\* s refers, directly or through bindings, to a binding that refers to itself
SelfReferential(s, b) ==
    \E n \in ReachK(Refs(s), b, Cardinality(DOMAIN b)) \cap DOMAIN b :
        n \in ReachK(Refs(b[n]), b, Cardinality(DOMAIN b))

\* how deep the references of s nest: 0 without markers
RECURSIVE Depth(_, _)
Depth(s, b) ==
    IF Refs(s) = {} THEN 0
    ELSE LET D == {IF n \in DOMAIN b THEN Depth(b[n], b) ELSE 0 : n \in Refs(s)}
         IN  1 + CHOOSE d \in D : \A e \in D : e <= d

\* s is plain text and complete {{ name }} markers: no other brace
RECURSIVE MarkersOnly(_)
MarkersOnly(s) ==
    IF Len(s) = 0 THEN TRUE
    ELSE IF Len(s) >= 2 /\ s[1] = "{" /\ s[2] = "{"
         THEN /\ CloseAt(s, 3) # 0
              /\ \A i \in 3..(CloseAt(s, 3) - 1) : s[i] \notin {"{", "}"}
              /\ StripBlanks(SubSeq(s, 3, CloseAt(s, 3) - 1)) # <<>>
              /\ MarkersOnly(SubSeq(s, CloseAt(s, 3) + 2, Len(s)))
         ELSE s[1] \notin {"{", "}"} /\ MarkersOnly(Tail(s))

PlainTemplates(s, b) == MarkersOnly(s) /\ \A n \in DOMAIN b : MarkersOnly(b[n])

\* C15 as stated, on templates and bindings that parse (plain text and
\* complete {{ name }} markers): for every template source without
\* self-reference and every binding map, render returns a string reached
\* after at most 2 passes, and expanding that string again with the same
\* bindings yields the same string.
C15_StableAfterTwoPasses ==
    (/\ last.op = "render"
     /\ PlainTemplates(RenderedSource, bindings)
     /\ ~SelfReferential(RenderedSource, bindings))
        => /\ ~last.raised
           /\ Len(passes) <= 2
           /\ Expand(CharsOf(last.ret), bindings) = CharsOf(last.ret)

\* C15 as amended: for every template source and binding map made of plain
\* text and complete {{ name }} markers, without self-reference and with
\* references nested at most 3 deep, render returns a string reached after at
\* most 3 passes, and expanding that string again yields the same string.
C15_StableAfterThreePasses ==
    (/\ last.op = "render"
     /\ PlainTemplates(RenderedSource, bindings)
     /\ ~SelfReferential(RenderedSource, bindings)
     /\ Depth(RenderedSource, bindings) <= 3)
        => /\ ~last.raised
           /\ Len(passes) <= 3
           /\ ~HasMarker(CharsOf(last.ret))
           /\ Expand(CharsOf(last.ret), bindings) = CharsOf(last.ret)

\* a chain three bindings deep was rendered to its plain text
C15_Witness ==
    /\ last.op = "render"
    /\ PlainTemplates(RenderedSource, bindings)
    /\ ~SelfReferential(RenderedSource, bindings)
    /\ Depth(RenderedSource, bindings) = 3
    /\ Len(passes) = 3
    /\ last.ret = StrV(<<"x">>)

\* C17: every render performs at least one and at most three passes; the
\* second only when the result of the first holds a marker, the third only
\* when the result of the second holds one; it returns the outcome of its
\* last pass, also when markers remain.
C17_RenderPassesBounded ==
    last.op = "render"
        => /\ Len(passes) \in 1..3
           /\ Len(passes) >= 2
                => ~passes[1].raised /\ HasMarker(CharsOf(passes[1].value))
           /\ Len(passes) >= 3
                => ~passes[2].raised /\ HasMarker(CharsOf(passes[2].value))
           /\ passes[Len(passes)] = [raised |-> last.raised, value |-> last.ret]

\* three passes were performed and the returned string still holds a marker
C17_Witness ==
    /\ last.op = "render"
    /\ Len(passes) = 3
    /\ ~last.raised
    /\ HasMarker(CharsOf(last.ret))

\* C18: a render changes neither the caller's binding map nor the tree: the
\* template keeps its raw source, and the serialized tree still holds that
\* source under the template's key.
C18_RenderChangesNothing ==
    [][last'.op = "render"
         => /\ bindings' = bindings
            /\ cfg' = cfg
            /\ DictGetItem(ItemsOf(Config_to_serializable(cfg')), last'.key)
                 = StrV(DictGetItem(ItemsOf(cfg), last'.key).raw_string)]_vars

\* a second operation rendered a template to something else than its source
C18_Witness ==
    /\ last.op = "render"
    /\ steps = 2
    /\ ~last.raised
    /\ bindings # <<>>
    /\ last.ret # StrV(RenderedSource)

\* the places (parent, key, child) where the last operation stored a Config:
\* the entries of the objects it made, and the entry it set
Touched ==
    UNION {{<<P, heap'[P].items[i].k, heap'[P].items[i].v.id>> :
               i \in {j \in 1..Len(heap'[P].items) : IsRef(heap'[P].items[j].v)}} :
             P \in (Len(heap) + 1)..Len(heap')}
    \cup
    (IF /\ last'.op \in {"setitem", "setattr"}
        /\ DictContains(heap'[last'.target.id].items, last'.key)
        /\ IsRef(DictGetItem(heap'[last'.target.id].items, last'.key))
     THEN {<<last'.target.id, last'.key,
             DictGetItem(heap'[last'.target.id].items, last'.key).id>>}
     ELSE {})

\* C20: the back-reference of a Config follows its latest assignment: a
\* Config that construction, attribute set or item set stores under key k of
\* a Config P, made from a plain mapping or built before, has parent P and
\* parent key k afterwards, and every other Config keeps its back-reference.
C20_ParentFollowsAssignment ==
    [][last'.op \in {"Config", "setitem", "setattr"}
         => /\ \A s \in Touched :
                  (\A s2 \in Touched : s2[3] = s[3] => s2 = s)
                    => /\ heap'[s[3]].parent = Ref(s[1])
                       /\ heap'[s[3]].parent_key = s[2]
            /\ \A c \in 1..Len(heap) :
                  c \notin {s[3] : s \in Touched}
                    => /\ heap'[c].parent = heap[c].parent
                       /\ heap'[c].parent_key = heap[c].parent_key]_vars

\* C22: setting a data key of a Config to a boolean, by attribute set or item
\* set, stores a SafeAttributeAccess wrapping that boolean whatever the key
\* held before (nothing, None, a scalar, a Config, a SafeList or a
\* StringTemplate), and serialization emits the boolean itself.
C22_BooleanSetStoresProxy ==
    [][(/\ last'.op \in {"setitem", "setattr"}
        /\ last'.arg.t = "bool"
        /\ last'.key \notin RESERVED
        /\ last'.op = "setattr" => ~SetsInstanceAttribute(CharsOf(last'.key)))
         => LET after == IF last'.target = None THEN cfg'
                         ELSE DictGetItem(ItemsOf(cfg'), last'.target)
                emitted == ItemsOf(Config_to_serializable(after))
            IN  /\ DictContains(ItemsOf(after), last'.key)
                /\ DictGetItem(ItemsOf(after), last'.key)
                     = SafeAttributeAccess(last'.arg)
                /\ DictContains(emitted, last'.key)
                /\ DictGetItem(emitted, last'.key) = last'.arg]_vars

\* the position at which the last SafeList mutator stored its first value
StoredAt ==
    CASE last'.op = "append" -> Len(ElemsOf(ListOf(last'.target))) + 1
      [] last'.op = "insert" -> last'.key.n + 1
      [] last'.op = "extend" -> Len(ElemsOf(ListOf(last'.target))) + 1

\* C21: conversion is idempotent.  A value that is wrapped already (a
\* Config, SafeList, StringTemplate or SafeAttributeAccess) is stored as it
\* is, same kind and same data with no further level of wrapping, by the
\* constructor, by attribute set and item set, and by SafeList append,
\* insert and extend; Config(c) of a Config c holds what c holds and
\* serializes to what c serializes to.
C21_ConversionIdempotent ==
    [][/\ (last'.op = "Config" /\ IsDict(last'.arg))
            => /\ ItemsOf(cfg') = ItemsOf(last'.arg)
               /\ IsConfig(last'.arg)
                    => Config_to_serializable(cfg')
                         = Config_to_serializable(last'.arg)
       /\ last'.op \in {"setitem", "setattr"}
            => LET after == IF last'.target = None THEN cfg'
                            ELSE DictGetItem(ItemsOf(cfg'), last'.target)
               IN  DictGetItem(ItemsOf(after), last'.key) = last'.arg
       /\ last'.op \in {"append", "insert"}
            => ElemsOf(DictGetItem(ItemsOf(cfg'), last'.target))[StoredAt]
                 = last'.arg
       /\ last'.op = "extend"
            => \A i \in 1..Len(ElemsOf(last'.arg)) :
                  ElemsOf(DictGetItem(ItemsOf(cfg'), last'.target))[StoredAt + i - 1]
                    = ElemsOf(last'.arg)[i]]_vars

\* C23: dump and reads change nothing in the tree.  After dump(T, loc),
\* whether it returned true, returned false or raised, T holds the same keys
\* with the same values in the same order and is bound to the same location
\* as before (a dump to an explicit location does not rebind T); after a
\* read of any dot-path, present or absent, the tree has the same keys and
\* serializes to the same data.
C23_DumpAndReadChangeNothing ==
    [][last'.op \in {"dump", "read"}
         => /\ DictKeys(ItemsOf(cfg')) = DictKeys(ItemsOf(cfg))
            /\ cfg' = cfg
            /\ yaml_path' = yaml_path
            /\ SerializeRaises(cfg') = SerializeRaises(cfg)
            /\ ~SerializeRaises(cfg)
                 => Config_to_serializable(cfg') = Config_to_serializable(cfg)]_vars

\* a tree bound to one location was written to another, explicit one
C23_Witness ==
    /\ last.op = "dump"
    /\ last.target = None
    /\ ~last.raised
    /\ last.ret = BoolV(TRUE)
    /\ yaml_path # None
    /\ last.key # None
    /\ Truthy(last.key)
    /\ abspath(CharsOf(last.key)) # abspath(CharsOf(yaml_path))
    /\ Len(ItemsOf(cfg)) > 0
    /\ fs[abspath(CharsOf(last.key))] = Document(Config_to_serializable(cfg))

====
